---- MODULE Spec2Model ----
(***************************************************************************)
(* A model of the conversational dispatch and generation pipeline of the   *)
(* snurbo Discord bot: rate limiter, session store, response cache,        *)
(* admission gate, generation orchestrator and the message handler.        *)
(*                                                                         *)
(* Each component has its own specification (SpecRL, SpecConv, ...) over   *)
(* the shared variables; a specification leaves the variables of the other *)
(* components unchanged.  Text (message contents, user ids, cache keys) is *)
(* modelled by strings, which are sequences of characters.                 *)
(***************************************************************************)
EXTENDS Integers, Sequences, FiniteSets, TLC

VARIABLES
  now,            \* Date.now(), in milliseconds
  userLimits,     \* RateLimiter.userLimits: Map<userId, RateLimitInfo>
  channelLimits,  \* RateLimiter.channelLimits: Map<channelId, RateLimitInfo>
  rlWindow,       \* history: per (map, key) the window opened by the creating check
  rlLast,         \* history: the checks made by the last checkRateLimits call
  maxContextMessages, \* config.maxContextMessages, read once at startup
  contexts,       \* ConversationManager.contexts: Map<contextKey, reference to a context>
  heap,           \* the ConversationContext objects, by reference
  appended,       \* history: per context object, every message ever pushed to it
  convOps,        \* history: number of session store calls made so far
  cache,          \* ResponseCache.cache: the Map's entries in insertion order
  cacheLast,      \* history: the last ResponseCache call and what it returned
  cacheOps,       \* history: number of ResponseCache calls made so far
  channelActivity, \* MessageHandler.channelActivity: Map<channelId, timestamps>
  gateLast,       \* history: the last inbound message and the gate's decision on it
  isOllamaHealthy, \* AIService.isOllamaHealthy
  lastHealthCheck, \* AIService.lastHealthCheck
  gen,            \* the invocations of AIService.generateResponse: position, locals, history
  genCalls,       \* history: number of generateResponse calls made so far
  handles,        \* the invocations of MessageHandler.handle: position and locals
  convLog,        \* history: the getContext and updateContext calls of handle, in order
  proc,           \* a call of ResponseProcessor.process: its arguments and its result
  model,          \* AIService.model
  selection       \* history: the selectOptimalModel call of initializeModel

rlVars == <<userLimits, channelLimits, rlWindow, rlLast>>

convVars == <<maxContextMessages, contexts, heap, appended, convOps>>

cacheVars == <<cache, cacheLast, cacheOps>>

gateVars == <<channelActivity, gateLast>>

genVars == <<isOllamaHealthy, lastHealthCheck, gen, genCalls>>

handleVars == <<handles, convLog>>

procVars == <<proc>>

modelVars == <<model, selection>>

vars == <<now, rlVars, convVars, cacheVars, gateVars, genVars, handleVars, procVars, modelVars>>

(***************************************************************************)
(* Generic helpers                                                         *)
(***************************************************************************)
Min(a, b) == IF a < b THEN a ELSE b

Max(a, b) == IF a > b THEN a ELSE b

\* Map.set(k, v) on a map modelled as a function with a finite domain
MapSet(m, k, v) == [x \in (DOMAIN m) \cup {k} |-> IF x = k THEN v ELSE m[x]]

\* Map.delete of every key in ks
MapDeleteAll(m, ks) == [x \in (DOMAIN m) \ ks |-> m[x]]

EmptyMap == [x \in {} |-> 0]

(***************************************************************************)
(* Text: strings are sequences of characters                               *)
(***************************************************************************)
UpperAlphabet == "ABCDEFGHIJKLMNOPQRSTUVWXYZ"

LowerAlphabet == "abcdefghijklmnopqrstuvwxyz"

CharAt(s, i) == SubSeq(s, i, i)

IsUpperChar(c) == \E i \in 1..26 : CharAt(UpperAlphabet, i) = c

IsLowerChar(c) == \E i \in 1..26 : CharAt(LowerAlphabet, i) = c

IsDigitChar(c) == \E i \in 1..10 : CharAt("0123456789", i) = c

LowerChar(c) ==
  IF IsUpperChar(c)
  THEN CharAt(LowerAlphabet, CHOOSE i \in 1..26 : CharAt(UpperAlphabet, i) = c)
  ELSE c

RECURSIVE ToLower(_)
\* String.prototype.toLowerCase
ToLower(s) ==
  IF Len(s) <= 1 THEN LowerChar(s)
  ELSE ToLower(SubSeq(s, 1, Len(s) \div 2)) \o ToLower(SubSeq(s, Len(s) \div 2 + 1, Len(s)))

\* String.prototype.includes
Includes(s, sub) ==
  \E i \in 1..(Len(s) - Len(sub) + 1) : SubSeq(s, i, i + Len(sub) - 1) = sub

\* String.prototype.endsWith
EndsWith(s, suffix) ==
  Len(suffix) <= Len(s) /\ SubSeq(s, Len(s) - Len(suffix) + 1, Len(s)) = suffix

\* String.prototype.startsWith
StartsWith(s, prefix) ==
  Len(prefix) <= Len(s) /\ SubSeq(s, 1, Len(prefix)) = prefix

\* some element of the list of words occurs in s (a regex alternation a|b|c)
IncludesAny(s, words) == \E i \in 1..Len(words) : Includes(s, words[i])

\* Array.prototype.slice(start) with one argument
JsSlice(a, start) ==
  LET k == IF start < 0 THEN Max(Len(a) + start, 0) ELSE Min(start, Len(a))
  IN  SubSeq(a, k + 1, Len(a))

SeqElems(a) == {a[i] : i \in 1..Len(a)}

\* \w of a regular expression
IsWordChar(c) == IsLowerChar(c) \/ IsUpperChar(c) \/ IsDigitChar(c) \/ c = "_"

\* \s of a regular expression
IsSpaceChar(c) == c = " " \/ c = "\t" \/ c = "\n"

RECURSIVE ReplaceNonWord(_, _)
\* s.replace(/[^\w\s]/g, rep)
ReplaceNonWord(s, rep) ==
  IF s = "" THEN ""
  ELSE (IF IsWordChar(Head(s)) \/ IsSpaceChar(Head(s)) THEN Head(s) ELSE rep)
       \o ReplaceNonWord(Tail(s), rep)

RECURSIVE DropSpaces(_)
DropSpaces(s) == IF s # "" /\ IsSpaceChar(Head(s)) THEN DropSpaces(Tail(s)) ELSE s

RECURSIVE CollapseSpaces(_)
\* s.replace(/\s+/g, " ")
CollapseSpaces(s) ==
  IF s = "" THEN ""
  ELSE IF IsSpaceChar(Head(s)) THEN " " \o CollapseSpaces(DropSpaces(s))
       ELSE Head(s) \o CollapseSpaces(Tail(s))

RECURSIVE DropTrailingSpaces(_)
DropTrailingSpaces(s) ==
  IF s # "" /\ IsSpaceChar(CharAt(s, Len(s)))
  THEN DropTrailingSpaces(SubSeq(s, 1, Len(s) - 1))
  ELSE s

\* String.prototype.trim
Trim(s) == DropTrailingSpaces(DropSpaces(s))

RECURSIVE TakeWord(_)
\* the longest prefix of s without whitespace
TakeWord(s) ==
  IF s = "" \/ IsSpaceChar(Head(s)) THEN "" ELSE Head(s) \o TakeWord(Tail(s))

RECURSIVE SplitSpaces(_)
\* s.split(/\s+/) without the empty strings it yields at the two ends
SplitSpaces(s) ==
  LET t == DropSpaces(s) IN
  IF t = "" THEN <<>>
  ELSE <<TakeWord(t)>> \o SplitSpaces(SubSeq(t, Len(TakeWord(t)) + 1, Len(t)))

\* s.replace(sub, "") with a string pattern: the first occurrence only
RemoveFirst(s, sub) ==
  IF Includes(s, sub)
  THEN LET i == CHOOSE j \in 1..(Len(s) - Len(sub) + 1) :
                  /\ SubSeq(s, j, j + Len(sub) - 1) = sub
                  /\ \A k \in 1..(j - 1) : SubSeq(s, k, k + Len(sub) - 1) # sub
       IN  SubSeq(s, 1, i - 1) \o SubSeq(s, i + Len(sub), Len(s))
  ELSE s

(***************************************************************************)
(* Bounds of the model                                                     *)
(***************************************************************************)
MaxNowRL == 150000     \* the rate-limiter clock stops here

MaxConfigContext == 2  \* largest configured maxContextMessages explored

MaxConvOps == 3        \* session store calls per behaviour

MaxNowConv == 86400001 \* the session store clock stops here

MaxCacheOps == 3       \* ResponseCache calls per behaviour

MaxNowCache == 600001  \* the cache clock stops here

MaxActivity == 9       \* activity timestamps held at a time, all channels

MaxNowGate == 60001    \* the clock of the admission gate stops here

MaxGenCalls == 1       \* generateResponse calls per behaviour

MaxNowGen == 130001    \* the clock of the generation service stops here

MaxListing == 3        \* models in the list of the backend

(***************************************************************************)
(* RateLimiter (src/src/utils/rateLimiter.ts) and                          *)
(* MessageHandler.checkRateLimits (messageHandler.ts)                      *)
(***************************************************************************)
Users == {"u1", "u2"}

\* the users whose messages reach the rate limiter in SpecRL
RLUsers == {"u1"}

\* channel ids; "t1" is a thread channel, "c1" a regular text channel
Channels == {"c1", "t1"}

ThreadChannels == {"t1"}

isThreadChannel(c) == c \in ThreadChannels

WindowMs == 60000

UserMaxRequests == 15

ThreadChannelLimit == 15

RegularChannelLimit == 10

\* the clock advances between events by one of these amounts
RLTickSteps == {WindowMs \div 2}

\* mutant: the cap test is off by one
checkLimit_offByOne(limitMap, key, maxRequests, windowMs, t) ==
  IF key \notin DOMAIN limitMap \/ t > limitMap[key].resetTime
  THEN [map |-> MapSet(limitMap, key, [count |-> 1, resetTime |-> t + windowMs]),
        ok  |-> TRUE]
  ELSE IF limitMap[key].count > maxRequests
       THEN [map |-> limitMap, ok |-> FALSE]
       ELSE [map |-> [limitMap EXCEPT ![key].count = @ + 1], ok |-> TRUE]

\* checkLimit(limitMap, key, maxRequests, windowMs) at time t:
\* the new map and the boolean it returns
checkLimit(limitMap, key, maxRequests, windowMs, t) ==
  IF key \notin DOMAIN limitMap \/ t > limitMap[key].resetTime
  THEN [map |-> MapSet(limitMap, key, [count |-> 1, resetTime |-> t + windowMs]),
        ok  |-> TRUE]
  ELSE IF limitMap[key].count >= maxRequests
       THEN [map |-> limitMap, ok |-> FALSE]
       ELSE [map |-> [limitMap EXCEPT ![key].count = @ + 1], ok |-> TRUE]

checkUserLimit(limits, userId, maxRequests, t) ==
  checkLimit(limits, userId, maxRequests, WindowMs, t)

checkChannelLimit(limits, channelId, maxRequests, t) ==
  checkLimit(limits, channelId, maxRequests, WindowMs, t)

channelLimitOf(c) == IF isThreadChannel(c) THEN ThreadChannelLimit ELSE RegularChannelLimit

\* History bookkeeping, independent of the limiter's own count field:
\* a window is opened by the check that finds no window open for the key
\* (none yet, or t past the end of the previous one).
WindowOpen(w, k, t) == k \in DOMAIN w /\ t <= w[k].until

CheckEvent(w, mapName, key, maxRequests, ok, t) ==
  [map    |-> mapName,
   key    |-> key,
   max    |-> maxRequests,
   ok     |-> ok,
   fresh  |-> ~WindowOpen(w, <<mapName, key>>, t),
   before |-> IF WindowOpen(w, <<mapName, key>>, t) THEN w[<<mapName, key>>].allowed ELSE 0]

RecordCheck(w, e, t) ==
  LET k == <<e.map, e.key>> IN
  IF e.fresh
  THEN MapSet(w, k, [until |-> t + WindowMs, allowed |-> IF e.ok THEN 1 ELSE 0, max |-> e.max])
  ELSE IF e.ok THEN [w EXCEPT ![k].allowed = @ + 1] ELSE w

\* mutation: the channel counter is consulted whatever the user check said
CheckRateLimits_bothAlways(u, c) ==
  LET ur == checkUserLimit(userLimits, u, UserMaxRequests, now)
      ue == CheckEvent(rlWindow, "user", u, UserMaxRequests, ur.ok, now)
      w1 == RecordCheck(rlWindow, ue, now)
      cr == checkChannelLimit(channelLimits, c, channelLimitOf(c), now)
      ce == CheckEvent(w1, "channel", c, channelLimitOf(c), cr.ok, now)
  IN  /\ userLimits' = ur.map
      /\ channelLimits' = cr.map
      /\ rlWindow' = RecordCheck(w1, ce, now)
      /\ rlLast' = IF ur.ok THEN <<ue, ce>> ELSE <<ue>>
      /\ UNCHANGED now

\* MessageHandler.checkRateLimits(message): the user counter first, the
\* channel counter only if the user check allowed.  No suspension point.
CheckRateLimits(u, c) ==
  LET ur == checkUserLimit(userLimits, u, UserMaxRequests, now)
      ue == CheckEvent(rlWindow, "user", u, UserMaxRequests, ur.ok, now)
      w1 == RecordCheck(rlWindow, ue, now)
      cr == checkChannelLimit(channelLimits, c, channelLimitOf(c), now)
      ce == CheckEvent(w1, "channel", c, channelLimitOf(c), cr.ok, now)
  IN  /\ userLimits' = ur.map
      /\ IF ur.ok
         THEN /\ channelLimits' = cr.map
              /\ rlWindow' = RecordCheck(w1, ce, now)
              /\ rlLast' = <<ue, ce>>
         ELSE /\ channelLimits' = channelLimits
              /\ rlWindow' = w1
              /\ rlLast' = <<ue>>
      /\ UNCHANGED now

\* mutation: the sweep also removes an entry at the moment its window ends
RateLimiterCleanup_atReset ==
  /\ userLimits' = MapDeleteAll(userLimits,
                      {k \in DOMAIN userLimits : now >= userLimits[k].resetTime})
  /\ channelLimits' = MapDeleteAll(channelLimits,
                      {k \in DOMAIN channelLimits : now >= channelLimits[k].resetTime})
  /\ UNCHANGED <<now, rlWindow, rlLast>>

\* RateLimiter.cleanup(): the periodic sweep of both maps
RateLimiterCleanup ==
  /\ userLimits' = MapDeleteAll(userLimits,
                      {k \in DOMAIN userLimits : now > userLimits[k].resetTime})
  /\ channelLimits' = MapDeleteAll(channelLimits,
                      {k \in DOMAIN channelLimits : now > channelLimits[k].resetTime})
  /\ UNCHANGED <<now, rlWindow, rlLast>>

(***************************************************************************)
(* ConversationManager (src/src/services/conversation/conversationManager.ts) *)
(***************************************************************************)
\* message texts sent by users, and replies of the bot
ConvTexts == {"Please debug my code", "lol music and gaming"}

BotTexts == {"ok"}

\* the channels in which SpecConv holds conversations
ConvChannels == {"c1"}

\* the values MAX_CONTEXT_MESSAGES can configure
ConfigContextValues == 0..MaxConfigContext

DefaultMaxContextMessages == 10

MaxAgeMs == 86400000

MaxTopics == 10

ConvTickSteps == {MaxAgeMs \div 2, MaxAgeMs \div 2 + 1}

\* mutation: the key is built without the separator
contextKey_noSeparator(userId, channelId) == userId \o channelId

\* the key of the session store
contextKey(userId, channelId) == userId \o "-" \o channelId

createNewContext(userId, channelId, t) ==
  [userId          |-> userId,
   channelId       |-> channelId,
   messages        |-> <<>>,
   lastInteraction |-> t,
   userProfile     |-> [name |-> "", preferredTopics |-> <<>>,
                        communicationStyle |-> "casual", lastSeen |-> t],
   threadContext   |-> <<>>]

topicKeywords ==
  <<"gaming", "games", "music", "movies", "programming", "coding", "art",
    "sports", "food", "travel", "books", "anime", "manga", "technology",
    "science", "politics", "history", "philosophy", "fitness", "cooking">>

extractTopics(message) ==
  LET messageLower == ToLower(message)
  IN  SelectSeq(topicKeywords, LAMBDA keyword : Includes(messageLower, keyword))

RECURSIVE addTopics(_, _)
\* the loop over the extracted topics: append each if new and under the cap
addTopics(preferred, topics) ==
  IF topics = <<>> THEN preferred
  ELSE IF Head(topics) \notin SeqElems(preferred) /\ Len(preferred) < MaxTopics
       THEN addTopics(Append(preferred, Head(topics)), Tail(topics))
       ELSE addTopics(preferred, Tail(topics))

communicationStyleOf(message) ==
  LET m == ToLower(message)
      formalWords == IncludesAny(m, <<"please", "thank you", "could you", "would you", "sir", "ma'am">>)
      casualWords == IncludesAny(m, <<"yeah", "yep", "nah", "lol", "haha", "omg", "wtf", "brb">>)
      technicalWords == IncludesAny(m, <<"function", "variable", "array", "object", "code", "programming", "debug">>)
  IN  IF technicalWords THEN "technical"
      ELSE IF formalWords /\ ~casualWords THEN "formal"
      ELSE "casual"

\* mutation: the topics of the last message replace the preferred topics
updateUserProfile_latestTopics(profile, message, t) ==
  [profile EXCEPT !.lastSeen = t,
                  !.communicationStyle = communicationStyleOf(message),
                  !.preferredTopics = extractTopics(message)]

\* ConversationManager.updateUserProfile at time t
updateUserProfile(profile, message, t) ==
  [profile EXCEPT !.lastSeen = t,
                  !.communicationStyle = communicationStyleOf(message),
                  !.preferredTopics = addTopics(@, extractTopics(message))]

\* the cap of updateContext: slice(-maxContextMessages) when over the cap
capMessages(messages, cap) ==
  IF Len(messages) > cap THEN JsSlice(messages, 0 - cap) ELSE messages

\* getContext(userId, channelId): the reference it returns, and the store after it
getContextRef(cs, h, userId, channelId) ==
  IF contextKey(userId, channelId) \in DOMAIN cs
  THEN cs[contextKey(userId, channelId)]
  ELSE Len(h) + 1

getContextMap(cs, h, userId, channelId) ==
  IF contextKey(userId, channelId) \in DOMAIN cs THEN cs
  ELSE MapSet(cs, contextKey(userId, channelId), Len(h) + 1)

getContextHeap(cs, h, userId, channelId, t) ==
  IF contextKey(userId, channelId) \in DOMAIN cs
  THEN [h EXCEPT ![cs[contextKey(userId, channelId)]].lastInteraction = t]
  ELSE Append(h, createNewContext(userId, channelId, t))

\* mutation: the reply is pushed before the message it answers
turnMessages_replyFirst(userId, userMessage, botResponse, t) ==
  << [content |-> botResponse, role |-> "assistant", timestamp |-> t, userId |-> "bot"],
     [content |-> userMessage, role |-> "user", timestamp |-> t, userId |-> userId] >>

\* the two turns pushed by updateContext
turnMessages(userId, userMessage, botResponse, t) ==
  << [content |-> userMessage, role |-> "user", timestamp |-> t, userId |-> userId],
     [content |-> botResponse, role |-> "assistant", timestamp |-> t, userId |-> "bot"] >>

\* mutation: the history is replaced by the new turn
updateContextObj_overwrite(ctx, userId, userMessage, botResponse, cap, t) ==
  [ctx EXCEPT !.messages = capMessages(turnMessages(userId, userMessage, botResponse, t), cap),
              !.userProfile = updateUserProfile(@, userMessage, t)]

\* updateContext applied to the context object it fetched
updateContextObj(ctx, userId, userMessage, botResponse, cap, t) ==
  [ctx EXCEPT !.messages = capMessages(@ \o turnMessages(userId, userMessage, botResponse, t), cap),
              !.userProfile = updateUserProfile(@, userMessage, t)]

\* ConversationManager.getContext called on its own
GetContext(u, c) ==
  /\ contexts' = getContextMap(contexts, heap, u, c)
  /\ heap' = getContextHeap(contexts, heap, u, c, now)
  /\ appended' = IF Len(heap') > Len(heap) THEN Append(appended, <<>>) ELSE appended
  /\ convOps' = convOps + 1
  /\ UNCHANGED <<now, maxContextMessages>>

\* ConversationManager.updateContext.  The continuation after its
\* `await this.getContext(...)` is a microtask, so no timer or I/O callback
\* runs between the fetch and the two pushes.
UpdateContext(u, c, userMessage, botResponse) ==
  LET r  == getContextRef(contexts, heap, u, c)
      h1 == getContextHeap(contexts, heap, u, c, now)
      a1 == IF Len(h1) > Len(heap) THEN Append(appended, <<>>) ELSE appended
  IN  /\ contexts' = getContextMap(contexts, heap, u, c)
      /\ heap' = [h1 EXCEPT ![r] = updateContextObj(@, u, userMessage, botResponse,
                                                    maxContextMessages, now)]
      /\ appended' = [a1 EXCEPT ![r] = @ \o turnMessages(u, userMessage, botResponse, now)]
      /\ convOps' = convOps + 1
      /\ UNCHANGED <<now, maxContextMessages>>

\* mutation: the sweep removes a context at the age of 24 hours
CleanupOldContexts_atAge ==
  /\ contexts' = MapDeleteAll(contexts,
        {k \in DOMAIN contexts : now - heap[contexts[k]].lastInteraction >= MaxAgeMs})
  /\ UNCHANGED <<now, maxContextMessages, heap, appended, convOps>>

\* ConversationManager.cleanupOldContexts, run by the hourly timer
CleanupOldContexts ==
  /\ contexts' = MapDeleteAll(contexts,
        {k \in DOMAIN contexts : now - heap[contexts[k]].lastInteraction > MaxAgeMs})
  /\ UNCHANGED <<now, maxContextMessages, heap, appended, convOps>>

(***************************************************************************)
(* ResponseCache (src/src/services/ai/responseCache.ts) and                *)
(* MessageUtils (src/src/utils/helpers.ts)                                 *)
(***************************************************************************)
TTL == 600000

MAX_ENTRIES == 100

\* SIMILARITY_THRESHOLD = 0.8, in percent
SIMILARITY_THRESHOLD == 80

\* texts looked up in and stored to the cache
CacheTexts ==
  {"explain docker networking",
   "Explain, docker   networking",
   "Explain the Docker networking!",
   "explain docker networking please"}

CacheResponses == {"r1", "r2"}

\* texts sent to generateResponse
GenTexts == {"hey", "what is docker?", "tell me a joke"}

\* texts of earlier turns held by the contexts passed to generateResponse
HistoryTexts == {"snurbo is so dumb", "stop messing with snurbo"}

\* every text that reaches the cache or the analyzers
\* two questions of five tokens that differ in the last one, and a shorter one
SimilarTexts ==
  {"docker compose network bridge setup", "docker compose network bridge timeout",
   "docker compose network"}

KnownTexts == CacheTexts \cup GenTexts \cup HistoryTexts \cup SimilarTexts

\* the (message, user) pairs of the cache calls: one user sends every text,
\* another one sends a text of the first
CachePairs ==
  {<<m, "u1">> : m \in CacheTexts} \cup {<<"explain docker networking", "u2">>}

\* the user whose entries fill the cache in the initial state "full"
FillerUser == "u0"

DigitOf(n) == CharAt("0123456789", n + 1)

FillerText(i) == "f" \o DigitOf(i \div 100) \o DigitOf((i \div 10) % 10) \o DigitOf(i % 10)

CacheTickSteps == {TTL, TTL + 1}

stopWords ==
  {"this", "that", "with", "from", "they", "been", "have", "were", "said",
   "each", "which", "their", "time", "will", "about", "would", "there",
   "could", "other", "more", "very", "what", "know", "just", "first", "into",
   "over", "think", "also", "your", "work", "life", "only", "can", "still",
   "should", "after", "being", "now", "made", "before"}

\* MessageUtils.extractKeywords
extractKeywords(text) ==
  LET words == SplitSpaces(ReplaceNonWord(ToLower(text), ""))
      long  == SelectSeq(words, LAMBDA word : Len(word) > 3)
  IN  SelectSeq(long, LAMBDA word : word \notin stopWords)

\* mutation: the intersection is divided by the size of the smaller set
calculateSimilarity_min(text1, text2) ==
  LET set1 == SeqElems(extractKeywords(text1))
      set2 == SeqElems(extractKeywords(text2))
  IN  IF set1 = {} \/ set2 = {}
      THEN [num |-> 0, den |-> 1]
      ELSE [num |-> Cardinality(set1 \cap set2),
            den |-> Min(Cardinality(set1), Cardinality(set2))]

\* MessageUtils.calculateSimilarity: the ratio intersection.size /
\* Math.max(set1.size, set2.size) as the pair [num, den]; 0 is [0, 1]
calculateSimilarity(text1, text2) ==
  LET set1 == SeqElems(extractKeywords(text1))
      set2 == SeqElems(extractKeywords(text2))
  IN  IF set1 = {} \/ set2 = {}
      THEN [num |-> 0, den |-> 1]
      ELSE [num |-> Cardinality(set1 \cap set2),
            den |-> Max(Cardinality(set1), Cardinality(set2))]

codeKeywords ==
  <<"function", "variable", "array", "object", "class", "method", "algorithm",
    "code", "programming", "script", "syntax", "debug", "compile", "runtime",
    "api", "database", "framework", "library">>

\* MessageUtils.isCodeRelated
isCodeRelated(text) == IncludesAny(ToLower(text), codeKeywords)

\* ResponseCache.getKey
getKey(message, userId) ==
  Trim(CollapseSpaces(ReplaceNonWord(ToLower(message), " "))) \o "-" \o userId

\* ResponseCache.calculateMessageComplexity, in hundredths
calculateMessageComplexity(message) ==
  Min(Min(Len(message), 100)
        + (IF Includes(message, "?") THEN 20 ELSE 0)
        + (IF isCodeRelated(message) THEN 30 ELSE 0),
      100)

\* The three text functions above are evaluated once for the texts of the
\* model and looked up afterwards.
getKeyMemo == [m \in KnownTexts, u \in Users |-> getKey(m, u)]

cachedMessageOf(key, userId) == RemoveFirst(key, "-" \o userId)

CachedMessages == {cachedMessageOf(getKeyMemo[m, u], u) : m \in KnownTexts, u \in Users}

similarityMemo == [m \in KnownTexts, k \in CachedMessages |-> calculateSimilarity(m, k)]

complexityMemo == [m \in KnownTexts |-> calculateMessageComplexity(m)]

fillerEntries ==
  [i \in 1..MAX_ENTRIES |->
     [key |-> getKey(FillerText(i), FillerUser), response |-> "filler",
      timestamp |-> 0, similarity |-> calculateMessageComplexity(FillerText(i))]]

\* position of key in the Map (0: absent)
cacheIndex(c, key) ==
  IF \E i \in 1..Len(c) : c[i].key = key
  THEN CHOOSE i \in 1..Len(c) : c[i].key = key
  ELSE 0

\* Map.set: an existing key keeps its place in the insertion order
cachePut(c, entry) ==
  IF cacheIndex(c, entry.key) = 0 THEN Append(c, entry)
  ELSE [c EXCEPT ![cacheIndex(c, entry.key)] = entry]

\* Array.prototype.sort((a, b) => a.timestamp - b.timestamp) is stable: the
\* entry of c it puts first is the one of least timestamp that comes first
\* in c, the entry it puts last the one of greatest timestamp that comes
\* last in c
sortedFirst(c) ==
  CHOOSE i \in 1..Len(c) :
    \A k \in 1..Len(c) :
      c[i].timestamp < c[k].timestamp \/ (c[i].timestamp = c[k].timestamp /\ i <= k)

sortedLast(c) ==
  CHOOSE i \in 1..Len(c) :
    \A k \in 1..Len(c) :
      c[k].timestamp < c[i].timestamp \/ (c[k].timestamp = c[i].timestamp /\ k <= i)

\* c without its entry at position i
WithoutEntry(c, i) == SubSeq(c, 1, i - 1) \o SubSeq(c, i + 1, Len(c))

RECURSIVE deleteSortedFirst(_, _), deleteSortedLast(_, _)
\* the first n entries of the sorted array deleted from c
deleteSortedFirst(c, n) ==
  IF n <= 0 THEN c ELSE deleteSortedFirst(WithoutEntry(c, sortedFirst(c)), n - 1)

\* the last n entries of the sorted array deleted from c
deleteSortedLast(c, n) ==
  IF n <= 0 THEN c ELSE deleteSortedLast(WithoutEntry(c, sortedLast(c)), n - 1)

\* mutation: the forced cleanup removes the newest entries
cacheCleanup_newest(c, force, t) ==
  LET kept == SelectSeq(c, LAMBDA e : ~(t - e.timestamp > TTL))
  IN  IF force /\ Len(kept) > MAX_ENTRIES
      THEN deleteSortedLast(kept, Len(kept) - MAX_ENTRIES)
      ELSE kept

\* ResponseCache.cleanup(force) at time t
cacheCleanup(c, force, t) ==
  LET kept == SelectSeq(c, LAMBDA e : ~(t - e.timestamp > TTL))
  IN  IF force /\ Len(kept) > MAX_ENTRIES
      THEN deleteSortedFirst(kept, Len(kept) - MAX_ENTRIES)
      ELSE kept

\* mutation: the scan goes over the entries of every user
findSimilarResponse_anyUser(c, message, userId, t) ==
  LET userEntries == SelectSeq(c, LAMBDA e : t - e.timestamp < TTL)
      similar ==
        SelectSeq(userEntries,
                  LAMBDA e : \E u \in Users :
                    /\ EndsWith(e.key, "-" \o u)
                    /\ LET sim == similarityMemo[message, cachedMessageOf(e.key, u)]
                       IN  sim.num * 100 >= SIMILARITY_THRESHOLD * sim.den)
  IN  IF similar = <<>> THEN <<>> ELSE <<Head(similar)>>

\* ResponseCache.findSimilarResponse at time t: the entry found, as a list
\* of at most one entry
findSimilarResponse(c, message, userId, t) ==
  LET userEntries ==
        SelectSeq(SelectSeq(c, LAMBDA e : EndsWith(e.key, "-" \o userId)),
                  LAMBDA e : t - e.timestamp < TTL)
      similar ==
        SelectSeq(userEntries,
                  LAMBDA e : LET sim == similarityMemo[message, cachedMessageOf(e.key, userId)]
                             IN  sim.num * 100 >= SIMILARITY_THRESHOLD * sim.den)
  IN  IF similar = <<>> THEN <<>> ELSE <<Head(similar)>>

\* mutant: the exact lookup accepts an entry whose age equals the TTL
cacheGet_staleAtTTL(c, message, userId, t) ==
  LET c1  == cacheCleanup(c, FALSE, t)
      i   == cacheIndex(c1, getKeyMemo[message, userId])
      hit == IF i # 0 /\ t - c1[i].timestamp <= TTL THEN <<c1[i]>>
             ELSE findSimilarResponse(c1, message, userId, t)
  IN  [cache |-> c1, from |-> hit,
       result |-> IF hit = <<>> THEN <<>> ELSE <<hit[1].response>>]

\* ResponseCache.get at time t: the cache after its cleanup, the entry the
\* answer is taken from (if any) and the returned value (<<>> is null)
cacheGet(c, message, userId, t) ==
  LET c1  == cacheCleanup(c, FALSE, t)
      i   == cacheIndex(c1, getKeyMemo[message, userId])
      hit == IF i # 0 /\ t - c1[i].timestamp < TTL THEN <<c1[i]>>
             ELSE findSimilarResponse(c1, message, userId, t)
  IN  [cache |-> c1, from |-> hit,
       result |-> IF hit = <<>> THEN <<>> ELSE <<hit[1].response>>]

\* mutant: a set never replaces the response of an existing key
cacheSet_keepOld(c, message, userId, response, t) ==
  LET entry == [key |-> getKeyMemo[message, userId], response |-> response,
                timestamp |-> t, similarity |-> complexityMemo[message]]
      c1 == IF cacheIndex(c, entry.key) = 0 THEN Append(c, entry) ELSE c
  IN  IF Len(c1) > MAX_ENTRIES THEN cacheCleanup(c1, TRUE, t) ELSE c1

\* ResponseCache.set at time t
cacheSet(c, message, userId, response, t) ==
  LET entry == [key |-> getKeyMemo[message, userId], response |-> response,
                timestamp |-> t, similarity |-> complexityMemo[message]]
      c1 == cachePut(c, entry)
  IN  IF Len(c1) > MAX_ENTRIES THEN cacheCleanup(c1, TRUE, t) ELSE c1

\* a call of ResponseCache.set
CacheSet(m, u, r) ==
  /\ cacheOps < MaxCacheOps
  /\ cache' = cacheSet(cache, m, u, r, now)
  /\ cacheLast' = [op |-> "set", message |-> m, userId |-> u, response |-> r,
                   at |-> now, from |-> <<>>, result |-> <<>>, before |-> cache,
                   over |-> cacheIndex(cache, getKeyMemo[m, u]) = 0 /\ Len(cache) >= MAX_ENTRIES,
                   anyFresh |-> \E i \in 1..Len(cache) : now - cache[i].timestamp < TTL]
  /\ cacheOps' = cacheOps + 1
  /\ UNCHANGED now

\* a call of ResponseCache.get
CacheGet(m, u) ==
  LET g == cacheGet(cache, m, u, now) IN
  /\ cacheOps < MaxCacheOps
  /\ cache' = g.cache
  /\ cacheLast' = [op |-> "get", message |-> m, userId |-> u, response |-> "",
                   at |-> now, from |-> g.from, result |-> g.result, before |-> cache,
                   over |-> FALSE,
                   anyFresh |-> \E i \in 1..Len(cache) : now - cache[i].timestamp < TTL]
  /\ cacheOps' = cacheOps + 1
  /\ UNCHANGED now

(***************************************************************************)
(* Regular expressions of the analyzers, by what they match                *)
(***************************************************************************)
\* the substring w starts at position i of s
MatchAt(s, i, w) ==
  i >= 1 /\ i + Len(w) - 1 <= Len(s) /\ SubSeq(s, i, i + Len(w) - 1) = w

IsWordAt(s, k) == k >= 1 /\ k <= Len(s) /\ IsWordChar(CharAt(s, k))

\* \b between the characters at positions i - 1 and i
WordBoundaryAt(s, i) == IsWordAt(s, i - 1) # IsWordAt(s, i)

\* /\bw\b/ matches at position i
WordAt(s, i, w) ==
  MatchAt(s, i, w) /\ WordBoundaryAt(s, i) /\ WordBoundaryAt(s, i + Len(w))

\* /\b(w1|w2|...)\b/.test(s)
HasAnyWord(s, words) ==
  \E n \in 1..Len(words) : \E i \in 1..Len(s) : WordAt(s, i, words[n])

\* /^(w1|w2|...)/.test(s)
StartsWithAny(s, words) == \E n \in 1..Len(words) : StartsWith(s, words[n])

\* \s+ matches exactly the positions a .. b - 1
SpaceRun(s, a, b) ==
  a < b /\ \A k \in a..(b - 1) : k <= Len(s) /\ IsSpaceChar(CharAt(s, k))

\* .* matches exactly the positions a .. b - 1
DotRun(s, a, b) == a <= b /\ \A k \in a..(b - 1) : CharAt(s, k) # "\n"

(***************************************************************************)
(* MessageAnalyzer (src/unnamed/part_002)                                  *)
(***************************************************************************)
questionStarters ==
  <<"what", "how", "why", "when", "where", "who", "which", "can", "could",
    "would", "should", "will", "is", "are", "do", "does", "did">>

\* the patterns are case-insensitive: they are matched on the lowered text
detectQuestion(content) ==
  LET t == Trim(content)
      l == ToLower(t)
  IN  \/ EndsWith(t, "?")
      \/ StartsWithAny(l, questionStarters)
      \/ HasAnyWord(l, <<"explain", "help", "show", "tell", "teach", "guide">>)
      \/ HasAnyWord(l, <<"what's", "how's", "where's", "when's", "why's">>)

codeTargets == <<"code", "function", "script">>

\* /\b(v1|v2|..)\s+.*\b(code|function|script)\b/
codeVerbPattern(l) ==
  \E n \in 1..6 :
    LET v == <<"write", "create", "make", "build", "implement", "show">>[n] IN
    \E i \in 1..Len(l) :
      /\ MatchAt(l, i, v) /\ WordBoundaryAt(l, i)
      /\ \E k \in (i + Len(v) + 1)..(Len(l) + 1) :
           /\ SpaceRun(l, i + Len(v), k)
           /\ \E j \in k..Len(l) : \E m \in 1..3 :
                DotRun(l, k, j) /\ WordAt(l, j, codeTargets[m])

\* /\b(how\s+to\s+.*(?:code|program|implement|write))/
howToPattern(l) ==
  \E i \in 1..Len(l) :
    /\ MatchAt(l, i, "how") /\ WordBoundaryAt(l, i)
    /\ \E a \in (i + 4)..Len(l) :
         /\ SpaceRun(l, i + 3, a) /\ MatchAt(l, a, "to")
         /\ \E b \in (a + 3)..(Len(l) + 1) :
              /\ SpaceRun(l, a + 2, b)
              /\ \E j \in b..Len(l) : \E m \in 1..4 :
                   /\ DotRun(l, b, j)
                   /\ MatchAt(l, j, <<"code", "program", "implement", "write">>[m])

\* /\b(example|sample).*\b(code|function|script)\b/
examplePattern(l) ==
  \E n \in 1..2 :
    LET e == <<"example", "sample">>[n] IN
    \E i \in 1..Len(l) :
      /\ MatchAt(l, i, e) /\ WordBoundaryAt(l, i)
      /\ \E j \in (i + Len(e))..Len(l) : \E m \in 1..3 :
           DotRun(l, i + Len(e), j) /\ WordAt(l, j, codeTargets[m])

\* /\bcode\s+for\b/
codeForPattern(l) ==
  \E i \in 1..Len(l) :
    /\ MatchAt(l, i, "code") /\ WordBoundaryAt(l, i)
    /\ \E a \in (i + 5)..Len(l) :
         /\ SpaceRun(l, i + 4, a) /\ MatchAt(l, a, "for")
         /\ WordBoundaryAt(l, a + 3)

\* /\bloop\b.*\b(example|how|code)\b/
loopPattern(l) ==
  \E i \in 1..Len(l) :
    /\ WordAt(l, i, "loop")
    /\ \E j \in (i + 4)..Len(l) : \E m \in 1..3 :
         DotRun(l, i + 4, j) /\ WordAt(l, j, <<"example", "how", "code">>[m])

detectCodeRequest(content) ==
  LET l == ToLower(content) IN
  \/ HasAnyWord(l, <<"code", "function", "class", "method", "algorithm",
                     "script", "program">>)
  \/ codeVerbPattern(l)
  \/ howToPattern(l)
  \/ examplePattern(l)
  \/ codeForPattern(l)
  \/ loopPattern(l)

\* The confidence is a sum of the doubles 0.1, 0.4, 0.1, 0.2 and 0.2.  It is
\* kept in twentieths: twice the tenths, plus or minus one where the IEEE-754
\* sum lands above or below the decimal it stands for (0.1 + 0.2 and
\* 0.1 + 0.1 + 0.2 + 0.2 land above, 0.1 + 0.4 + 0.2 + 0.2 lands below).
calculateConfidence(content, isQuestion) ==
  LET long == Len(content) > 20
      helpWord == HasAnyWord(ToLower(content), <<"help", "explain", "show">>)
      mark == Includes(content, "?")
      tenths == 1 + (IF isQuestion THEN 4 ELSE 0) + (IF long THEN 1 ELSE 0)
                  + (IF helpWord THEN 2 ELSE 0) + (IF mark THEN 2 ELSE 0)
      drift == IF ~isQuestion /\ ~long /\ (helpWord # mark) THEN 1
               ELSE IF ~isQuestion /\ long /\ helpWord /\ mark THEN 1
               ELSE IF isQuestion /\ ~long /\ helpWord /\ mark THEN 0 - 1
               ELSE 0
  IN  Min(2 * tenths + drift, 20)

analyzeMessage(content) ==
  LET isQuestion == detectQuestion(content) IN
  [isQuestion |-> isQuestion,
   requiresCode |-> detectCodeRequest(content),
   confidence |-> calculateConfidence(content, isQuestion)]

(***************************************************************************)
(* The admission gate: MessageHandler.shouldProcessMessage and the channel *)
(* activity it reads (messageHandler.ts), ConversationManager.shouldRespond *)
(***************************************************************************)
DMChannels == {"d1"}

GateChannels == {"c1", "t1", "d1"}

\* message.channel.type === ChannelType.DM
isDMChannel(c) == c \in DMChannels

BotName == "snurbo"

\* config.responseChance (default 0.15), in percent
ResponseChance == 15

ActivityWindowMs == 60000

ActivityKeepMs == 10 * 60 * 1000

\* Math.random() of shouldRespond, in percent
GateDraws == {0, 20, 99}

GateTexts ==
  {"hey Snurbo", "how do I install docker?", "is it", "lol nice!"}

GateTickSteps == {ActivityWindowMs, ActivityWindowMs + 1}

\* an inbound Discord message
GateMessage(u, bot, c, text, mentioned) ==
  [authorId |-> u, authorBot |-> bot, channelId |-> c, content |-> text,
   mentionsBot |-> mentioned]

analysisMemo == [m \in GateTexts |-> analyzeMessage(m)]

analysisOf(m) == IF m \in GateTexts THEN analysisMemo[m] ELSE analyzeMessage(m)

\* message.content.toLowerCase().includes("snurbo")
isNameMentioned(content) == Includes(ToLower(content), BotName)

nameMentionMemo == [m \in GateTexts |-> isNameMentioned(m)]

nameMentionOf(m) ==
  IF m \in GateTexts THEN nameMentionMemo[m] ELSE isNameMentioned(m)

RECURSIVE TotalActivity(_, _)
\* the number of timestamps held for the channels cs
TotalActivity(activity, cs) ==
  IF cs = {} THEN 0
  ELSE LET c == CHOOSE x \in cs : TRUE
       IN  Len(activity[c]) + TotalActivity(activity, cs \ {c})

\* channelActivity.get(channelId) || []
activityOf(activity, c) == IF c \in DOMAIN activity THEN activity[c] ELSE <<>>

\* mutation: a timestamp of exactly 60 seconds ago is kept
trackChannelActivity_keepsBoundary(activity, c, t) ==
  LET pushed == Append(activityOf(activity, c), t)
      recentActivity == SelectSeq(pushed, LAMBDA ts : ts >= t - ActivityWindowMs)
  IN  MapSet(activity, c, recentActivity)

\* MessageHandler.trackChannelActivity at time t
trackChannelActivity(activity, c, t) ==
  LET pushed == Append(activityOf(activity, c), t)
      recentActivity == SelectSeq(pushed, LAMBDA ts : ts > t - ActivityWindowMs)
  IN  MapSet(activity, c, recentActivity)

getChannelActivity(activity, c) == Len(activityOf(activity, c))

cleanupChannelActivity(activity, t) ==
  LET recent(c) == SelectSeq(activity[c], LAMBDA ts : ts > t - ActivityKeepMs)
      kept == {c \in DOMAIN activity : Len(recent(c)) # 0}
  IN  [c \in kept |-> recent(c)]

\* the chance of a random reply, in percent
responseChanceOf(message) ==
  LET base == ResponseChance
      c1 == IF Includes(message, "?") THEN base + 10 ELSE base
      c2 == IF Includes(message, "!") THEN c1 + 5 ELSE c1
      c3 == IF HasAnyWord(ToLower(message), <<"yo", "what's up", "wassup">>)
            THEN c2 + 5 ELSE c2
      c4 == IF Len(message) < 10 THEN c3 - 5 ELSE c3
  IN  Max(0, Min(100, c4))

chanceMemo == [m \in GateTexts |-> responseChanceOf(m)]

chanceOf(m) == IF m \in GateTexts THEN chanceMemo[m] ELSE responseChanceOf(m)

\* rnd is the value Math.random() yields if it is called; drew tells whether
\* it was called
shouldRespond(message, isMentioned, isDM, activityCount, rnd) ==
  IF isDM \/ isMentioned THEN [result |-> TRUE, drew |-> FALSE]
  ELSE IF nameMentionOf(message) THEN [result |-> TRUE, drew |-> FALSE]
  ELSE IF activityCount > 5 THEN [result |-> FALSE, drew |-> FALSE]
  ELSE [result |-> rnd < chanceOf(message), drew |-> TRUE]

GateDecision(should, reason, drew) ==
  [should |-> should, reason |-> reason, drew |-> drew]

\* mutation: the mention is not looked at
shouldProcessMessage_noMention(msg, activity, rnd) ==
  LET nameMentioned == nameMentionOf(msg.content)
      isDM == isDMChannel(msg.channelId)
      analysis == analysisOf(msg.content)
      count == getChannelActivity(activity, msg.channelId)
      draw == shouldRespond(msg.content, FALSE, FALSE, count, rnd)
  IN
  IF isDM THEN GateDecision(TRUE, "DM", FALSE)
  ELSE IF nameMentioned THEN GateDecision(TRUE, "name mention", FALSE)
  ELSE IF isThreadChannel(msg.channelId)
  THEN IF analysis.isQuestion /\ analysis.confidence > 8
       THEN GateDecision(TRUE, "question in thread", FALSE)
       ELSE IF count < 8
       THEN IF draw.result
            THEN GateDecision(TRUE, "random response in thread", draw.drew)
            ELSE GateDecision(FALSE, "", draw.drew)
       ELSE GateDecision(FALSE, "", FALSE)
  ELSE IF analysis.isQuestion /\ analysis.confidence > 12 /\ count < 5
       THEN GateDecision(TRUE, "question detected", FALSE)
       ELSE IF draw.result
            THEN GateDecision(TRUE, "random response", draw.drew)
            ELSE GateDecision(FALSE, "", draw.drew)

\* the confidence thresholds 0.4 and 0.6 are 8 and 12 twentieths
shouldProcessMessage(msg, activity, rnd) ==
  LET isMentioned == msg.mentionsBot
      nameMentioned == nameMentionOf(msg.content)
      isDM == isDMChannel(msg.channelId)
      analysis == analysisOf(msg.content)
      count == getChannelActivity(activity, msg.channelId)
      draw == shouldRespond(msg.content, FALSE, FALSE, count, rnd)
  IN
  IF isDM THEN GateDecision(TRUE, "DM", FALSE)
  ELSE IF isMentioned THEN GateDecision(TRUE, "@mention", FALSE)
  ELSE IF nameMentioned THEN GateDecision(TRUE, "name mention", FALSE)
  ELSE IF isThreadChannel(msg.channelId)
  THEN IF analysis.isQuestion /\ analysis.confidence > 8
       THEN GateDecision(TRUE, "question in thread", FALSE)
       ELSE IF count < 8
       THEN IF draw.result
            THEN GateDecision(TRUE, "random response in thread", draw.drew)
            ELSE GateDecision(FALSE, "", draw.drew)
       ELSE GateDecision(FALSE, "", FALSE)
  ELSE IF analysis.isQuestion /\ analysis.confidence > 12 /\ count < 5
       THEN GateDecision(TRUE, "question detected", FALSE)
       ELSE IF draw.result
            THEN GateDecision(TRUE, "random response", draw.drew)
            ELSE GateDecision(FALSE, "", draw.drew)

NoGateCall ==
  [msg |-> GateMessage("", FALSE, "", "", FALSE), rnd |-> 0, tracked |-> FALSE,
   count |-> 0, decision |-> GateDecision(FALSE, "", FALSE), at |-> 0]

\* handle() up to the admission decision (lines 35-41): a bot's message is
\* dropped before anything else, every other message is tracked and gated
GateInbound(msg, rnd) ==
  /\ TotalActivity(channelActivity, DOMAIN channelActivity) < MaxActivity
  /\ IF msg.authorBot
     THEN /\ gateLast' = [NoGateCall EXCEPT !.msg = msg, !.rnd = rnd, !.at = now]
          /\ UNCHANGED channelActivity
     ELSE LET tracked == trackChannelActivity(channelActivity, msg.channelId, now) IN
          /\ channelActivity' = tracked
          /\ gateLast' =
               [msg |-> msg, rnd |-> rnd, tracked |-> TRUE,
                count |-> getChannelActivity(tracked, msg.channelId),
                decision |-> shouldProcessMessage(msg, tracked, rnd), at |-> now]
  /\ UNCHANGED now

\* the channel part of the maintenance timer
CleanupChannelActivity ==
  /\ channelActivity' = cleanupChannelActivity(channelActivity, now)
  /\ UNCHANGED <<now, gateLast>>

(***************************************************************************)
(* Regular expressions as sets of positions: a set P holds the positions   *)
(* at which the part of the pattern matched so far may end (the position   *)
(* of the next character to match)                                         *)
(***************************************************************************)
\* the positions just after an occurrence of the literal w
EndsOf(s, w) == {i + Len(w) : i \in {k \in 1..Len(s) : MatchAt(s, k, w)}}

\* P followed by the literal w
AfterWord(s, P, w) == {p + Len(w) : p \in {q \in P : MatchAt(s, q, w)}}

\* P followed by (w)?
AfterOptional(s, P, w) == P \cup AfterWord(s, P, w)

\* P followed by at least least characters of the class C
AfterRun(s, P, C(_), least) ==
  {j \in 1..(Len(s) + 1) :
     \E e \in P : j >= e + least /\ \A k \in e..(j - 1) : C(CharAt(s, k))}

IsDotChar(c) == c # "\n"

\* P followed by \s+
AfterSpaces(s, P) == AfterRun(s, P, IsSpaceChar, 1)

\* P followed by \s*
AfterOptSpaces(s, P) == AfterRun(s, P, IsSpaceChar, 0)

\* P followed by .*
AfterDots(s, P) == AfterRun(s, P, IsDotChar, 0)

RECURSIVE InOrderEnds(_, _, _)
\* the ends of the matches of /l1.*l2.* ... lk/ for the literals l1 .. lk
InOrderEnds(s, lits, k) ==
  IF k = 1 THEN EndsOf(s, lits[1])
  ELSE AfterWord(s, AfterDots(s, InOrderEnds(s, lits, k - 1)), lits[k])

\* /l1.*l2.* ... ln/.test(s)
InOrder(s, lits) == InOrderEnds(s, lits, Len(lits)) # {}

(***************************************************************************)
(* ConversationAnalyzer (src/unnamed/part_003)                             *)
(***************************************************************************)
botReferences == <<"snurbo", "bot", "him", "her", "it">>

\* /stem(ing)?\s+/ has matched
AfterStem(s, stem) == AfterSpaces(s, AfterOptional(s, EndsOf(s, stem), "ing"))

\* the weights of the defense patterns that match, in tenths
defenseWeights(m) ==
  (IF AfterWord(m, AfterStem(m, "talk"), "smack") # {} THEN {9} ELSE {})
  \cup (IF AfterWord(m, AfterStem(m, "mess"), "with") # {} THEN {8} ELSE {})
  \cup (IF AfterWord(m, AfterDots(m, AfterStem(m, "say")), "about") # {} THEN {7} ELSE {})
  \cup (IF Includes(m, "defend") THEN {8} ELSE {})
  \cup (IF AfterWord(m, AfterSpaces(m, AfterWord(m, AfterStem(m, "stick"), "up")), "for") # {}
        THEN {8} ELSE {})
  \cup (IF InOrder(m, <<"leave", "alone">>) THEN {7} ELSE {})
  \cup (IF InOrder(m, <<"what", "problem", "with">>) THEN {6} ELSE {})
  \cup (IF AfterWord(m, AfterSpaces(m, EndsOf(m, "back")), "off") # {} THEN {8} ELSE {})

\* analyzeDefensiveContext from the latest user message on; the weights and
\* the confidence are in tenths
analyzeLatest(content) ==
    LET latestMessage == ToLower(content)
        mentionsBot == IncludesAny(latestMessage, botReferences)
        weights == defenseWeights(latestMessage)
        defenseScore == IF weights = {} THEN 0
                        ELSE CHOOSE w \in weights : \A v \in weights : v <= w
        emotionalTone ==
          IF Includes(latestMessage, "!!") THEN "intense"
          ELSE IF IncludesAny(latestMessage, <<"lol", "haha">>) THEN "playful"
          ELSE IF IncludesAny(latestMessage, <<"seriously", "real">>) THEN "serious"
          ELSE "neutral"
    IN  [isDefending |-> defenseScore > 5,
         defendingBot |-> mentionsBot /\ defenseScore > 5,
         emotionalTone |-> emotionalTone,
         confidence |-> defenseScore]

\* evaluated once for the texts of the model
defenseMemo == [m \in KnownTexts |-> analyzeLatest(m)]

analyzeDefensiveContext(messages) ==
  LET recentMessages == JsSlice(messages, 0 - 4)
      userMessages == SelectSeq(recentMessages, LAMBDA m : m.role = "user")
  IN
  IF Len(userMessages) = 0
  THEN [isDefending |-> FALSE, defendingBot |-> FALSE, emotionalTone |-> "neutral",
        confidence |-> 0]
  ELSE defenseMemo[userMessages[Len(userMessages)].content]

shouldAcknowledgeSupport(messages) ==
  LET analysis == analyzeDefensiveContext(messages)
  IN  analysis.defendingBot /\ analysis.confidence > 6

(***************************************************************************)
(* KnowledgeService.shouldSearchKnowledge (knowledgeService.ts)            *)
(***************************************************************************)
knowledgeIndicators ==
  << <<"what do you know about">>, <<"tell me about">>, <<"search", "for">>,
     <<"find", "info">>, <<"look up">>, <<"check", "knowledge">>,
     <<"do you have", "info">>, <<"know anything about">>,
     <<"what", "can", "tell", "about">>, <<"info", "on">>, <<"details", "about">>,
     <<"explain", "how">>, <<"help", "with">>, <<"guidance", "on">>,
     <<"how", "do", "i">>, <<"show", "me", "how">>, <<"need", "help", "with">>,
     <<"what", "is">>, <<"definition", "of">>,
     <<"about", "yourself">>, <<"your", "capabilities">>,
     <<"what", "can", "you", "do">>, <<"features">>, <<"commands">>,
     <<"documentation">>, <<"reference">>, <<"tutorial">>, <<"guide">>,
     <<"manual">>, <<"readme">> >>

commonTopics ==
  <<"snurbo", "bot", "discord", "typescript", "javascript", "ollama", "ai",
    "model", "configuration", "setup", "install">>

\* the patterns are case-insensitive: they are matched on the lowered text
shouldSearchKnowledge(message) ==
  LET l == ToLower(message)
      isQuestion == Includes(message, "?")
                      \/ StartsWithAny(ToLower(Trim(message)), questionStarters)
      hasCommonTopic == IncludesAny(l, commonTopics)
  IN  \/ \E n \in 1..Len(knowledgeIndicators) : InOrder(l, knowledgeIndicators[n])
      \/ EndsWith(l, "help")
      \/ (isQuestion /\ hasCommonTopic)

(***************************************************************************)
(* AIService (src/unnamed/part_004, lines 246-715)                         *)
(* Pictographs of the canned texts are written as names in braces.         *)
(***************************************************************************)
HEALTH_CHECK_INTERVAL == 30000

\* callOllamaWithRetry(messages, requiresCode, retries = 2)
Retries == 2

\* config.model (default)
ConfiguredModel == "llama3.1:8b"

supportResponses ==
  <<"Aww, thanks for having my back!",
    "You're the best! Thanks for sticking up for me",
    "My hero! Thanks for the support!",
    "That means a lot, thanks for defending me!",
    "Appreciate you having my back there!",
    "Aw thanks! You're too kind sticking up for me",
    "That's so sweet of you to defend me!">>

serviceUnavailableResponses ==
  <<"My AI brain is offline right now {robot}{thought}",
    "Ollama service seems to be taking a nap... try again in a bit?",
    "Technical difficulties on my end - the AI service isn't responding",
    "Connection to my language model failed. Is Ollama running?",
    "Can't reach my AI backend right now. Try again later?">>

fallbackResponses ==
  <<"brain.exe stopped working",
    "connection timeout, try again?",
    "having some lag here",
    "processing... please wait",
    "system overload, give me a sec",
    "my circuits are crossed lol">>

quickResponses ==
  ("yo" :> <<"yo", "hey", "what's good">>)
  @@ ("hey" :> <<"hey", "yo", "what's up">>)
  @@ ("hi" :> <<"hey", "hi", "yo">>)
  @@ ("hello" :> <<"hey", "hello", "yo">>)
  @@ ("thanks" :> <<"np", "no worries", "anytime", "you got it">>)
  @@ ("thank you" :> <<"no problem", "anytime", "np", "sure thing">>)
  @@ ("lol" :> <<"lol", "haha", "lmao">>)
  @@ ("lmao" :> <<"lmao", "haha", "that's funny">>)
  @@ ("nice" :> <<"nice", "cool", "solid">>)
  @@ ("cool" :> <<"cool", "nice", "yeah">>)
  @@ ("bye" :> <<"later", "see ya", "peace out">>)
  @@ ("gtg" :> <<"later", "see ya", "catch you later">>)
  @@ ("brb" :> <<"alright", "later", "catch you in a bit">>)
  @@ ("gm" :> <<"morning!", "hey", "good morning">>)
  @@ ("gn" :> <<"night!", "sleep well", "later">>)
  @@ ("good morning" :> <<"morning!", "hey there", "good morning">>)
  @@ ("good night" :> <<"night!", "sleep well", "sweet dreams">>)

\* list[Math.floor(Math.random() * list.length)], the random number in percent
RandomOf(list, rnd) == list[((rnd * Len(list)) \div 100) + 1]

\* getQuickResponse: <<>> is null
getQuickResponse(message, rnd) ==
  IF message \in DOMAIN quickResponses
  THEN <<RandomOf(quickResponses[message], rnd)>>
  ELSE <<>>

getServiceUnavailableResponse(rnd) == RandomOf(serviceUnavailableResponses, rnd)

getFallbackResponse(rnd) == RandomOf(fallbackResponses, rnd)

\* an error thrown inside generateResponse: an OllamaServiceError with its
\* status (0 when it has none), or any other error
OllamaServiceError(status) == [ollama |-> TRUE, status |-> status]

OtherError == [ollama |-> FALSE, status |-> 0]

\* mutation: status 503 has no case of its own
handleAIError_no503(error, rnd) ==
  IF error.ollama
  THEN "Having some technical difficulties right now. Give me a moment to sort things out."
  ELSE getFallbackResponse(rnd)

\* handleAIError: the text returned for a caught error
handleAIError(error, rnd) ==
  IF error.ollama
  THEN IF error.status = 503
       THEN "Looks like my brain is taking a coffee break {coffee} (Ollama service unavailable)"
       ELSE IF error.status = 408
       THEN "That's taking longer than expected... try asking something simpler?"
       ELSE IF error.status = 404
       THEN "Model '" \o ConfiguredModel
              \o "' seems to have wandered off. Check if it's installed in Ollama."
       ELSE IF error.status = 400
       THEN "Something went wrong with that request. Try rephrasing your message?"
       ELSE "Having some technical difficulties right now. Give me a moment to sort things out."
  ELSE getFallbackResponse(rnd)

\* what a fetch of /v1/chat/completions can end in
HttpResponse(status, content) == [kind |-> "response", status |-> status, content |-> content]

FetchFailure(kind) == [kind |-> kind, status |-> 0, content |-> ""]

\* response.ok
IsOk(status) == status >= 200 /\ status <= 299

\* callOllama on the outcome of its fetch: the content, or the error thrown
callOllama(outcome) ==
  IF outcome.kind = "response"
  THEN IF ~IsOk(outcome.status)
       THEN [ok |-> FALSE, content |-> "", error |-> OllamaServiceError(outcome.status)]
       ELSE IF outcome.content = ""
       THEN [ok |-> FALSE, content |-> "", error |-> OllamaServiceError(0)]
       ELSE [ok |-> TRUE, content |-> outcome.content, error |-> OtherError]
  ELSE IF outcome.kind = "TypeError fetch"
  THEN [ok |-> FALSE, content |-> "", error |-> OllamaServiceError(503)]
  ELSE IF outcome.kind = "AbortError"
  THEN [ok |-> FALSE, content |-> "", error |-> OllamaServiceError(408)]
  ELSE [ok |-> FALSE, content |-> "", error |-> OllamaServiceError(500)]

\* mutation: the delay does not grow with the attempt
retryDelay_constant(attempt, jitter) == 1000 + jitter

\* the delay before the next attempt, the jitter being Math.random() * 500
retryDelay(attempt, jitter) == 1000 * (2 ^ attempt) + jitter

(***************************************************************************)
(* ResponseFormatter (src/src/services/discord/responseFormatter.ts)       *)
(***************************************************************************)
IsTerminatorChar(c) == c = "." \/ c = "!" \/ c = "?"

\* the least element of a non-empty set of numbers
Least(S) == CHOOSE x \in S : \A y \in S : x <= y

\* the greatest element of a non-empty set of numbers
Greatest(S) == CHOOSE x \in S : \A y \in S : y <= x

\* s.substring(i - 1): the part of s from position i on
From(s, i) == SubSeq(s, i, Len(s))

RECURSIVE SplitSentences(_)
\* s.split(/[.!?]+/)
SplitSentences(s) ==
  LET seps == {i \in 1..Len(s) : IsTerminatorChar(CharAt(s, i))} IN
  IF seps = {} THEN <<s>>
  ELSE LET a == Least(seps)
           after == {i \in a..(Len(s) + 1) :
                       /\ \A k \in a..(i - 1) : IsTerminatorChar(CharAt(s, k))
                       /\ (i = Len(s) + 1 \/ ~IsTerminatorChar(CharAt(s, i)))}
       IN  <<SubSeq(s, 1, a - 1)>> \o SplitSentences(From(s, Least(after)))

RECURSIVE SplitLines(_)
\* s.split("\n")
SplitLines(s) ==
  LET nls == {i \in 1..Len(s) : CharAt(s, i) = "\n"} IN
  IF nls = {} THEN <<s>>
  ELSE <<SubSeq(s, 1, Least(nls) - 1)>> \o SplitLines(From(s, Least(nls) + 1))

\* /[.!?]$/ matches s
EndsWithTerminator(s) == s # "" /\ IsTerminatorChar(CharAt(s, Len(s)))

\* the character U+0060 cannot be written in a string of the model: the
\* texts of the model write it as ~
Backtick == "~"

Fence == "~~~"

IsNotTickOrNewline(c) == c # Backtick /\ c # "\n"

\* /kw\s+\w+\s*ch/ matches s
DeclarationPattern(s, kw, ch) ==
  AfterWord(s, AfterOptSpaces(s, AfterRun(s, AfterSpaces(s, EndsOf(s, kw)), IsWordChar, 1)), ch) # {}

\* /kw\s*\(.*\)\s*{/ matches s
ControlPattern(s, kw) ==
  AfterWord(s, AfterOptSpaces(s,
     AfterWord(s, AfterDots(s, AfterWord(s, AfterOptSpaces(s, EndsOf(s, kw)), "(")), ")")), "{") # {}

containsCode(text) ==
  \/ \E i \in EndsOf(text, Fence) : \E j \in EndsOf(text, Fence) : j >= i + 3
  \/ AfterWord(text, AfterRun(text, EndsOf(text, Backtick), IsNotTickOrNewline, 1), Backtick) # {}
  \/ DeclarationPattern(text, "function", "(")
  \/ DeclarationPattern(text, "class", "{")
  \/ \E kw \in {"const", "let", "var"} : DeclarationPattern(text, kw, "=")
  \/ AfterWord(text, AfterDots(text, AfterSpaces(text, EndsOf(text, "import"))), "from") # {}
  \/ Includes(text, "console.log")
  \/ \E kw \in {"if", "for", "while"} : ControlPattern(text, kw)

codeLineStarts ==
  <<"function", "class", "const", "let", "var", "if", "for", "while", "import",
    "export", "{", "}", ";", "//">>

\* /^[\s]*(?:function|class|...|\/\/)/ matches the line
IsCodeLine(line) ==
  \E n \in 1..Len(codeLineStarts) :
    AfterWord(line, AfterOptSpaces(line, {1}), codeLineStarts[n]) # {}

\* codeLines.length > totalLines * 0.6
isFullCodeResponse(content) ==
  LET lines == SplitLines(content)
      codeLines == SelectSeq(lines, IsCodeLine)
  IN  10 * Len(codeLines) > 6 * Len(lines)

IsNotCloseAngle(c) == c # ">"

IsAnyChar(c) == TRUE

IsWordOrDash(c) == IsWordChar(c) \/ c = "-"

\* /kw\s+\w+/ matches s
KeywordThenWord(s, kw) == AfterRun(s, AfterSpaces(s, EndsOf(s, kw)), IsWordChar, 1) # {}

\* /a\s+b/ matches s
SpacedPair(s, a, b) == AfterWord(s, AfterSpaces(s, EndsOf(s, a)), b) # {}

detectLanguage(code) ==
  IF InOrder(code, <<"import", "from">>)
       \/ IncludesAny(code, <<"export", "const", "let", "=>", "interface", "type">>)
  THEN "typescript"
  ELSE IF IncludesAny(code, <<"function", "var", "console.log", "document.">>)
  THEN "javascript"
  ELSE IF KeywordThenWord(code, "def") \/ KeywordThenWord(code, "import")
            \/ Includes(code, "print(")
  THEN "python"
  ELSE IF SpacedPair(code, "public", "class") \/ Includes(code, "System.out")
            \/ SpacedPair(code, "import", "java")
  THEN "java"
  ELSE IF IncludesAny(code, <<"#include", "std::", "cout">>) \/ SpacedPair(code, "int", "main")
  THEN "cpp"
  ELSE IF KeywordThenWord(code, "fn") \/ SpacedPair(code, "let", "mut")
            \/ Includes(code, "println!")
  THEN "rust"
  ELSE IF IncludesAny(ToLower(code), <<"select", "from", "where", "insert", "update">>)
  THEN "sql"
  ELSE IF AfterWord(code, AfterRun(code, EndsOf(code, "<"), IsNotCloseAngle, 1), ">") # {}
  THEN "html"
  ELSE IF \/ AfterWord(code, AfterRun(code, EndsOf(code, "{"), IsAnyChar, 0), "}") # {}
          \/ Includes(code, "@media")
          \/ AfterWord(code, AfterOptSpaces(code,
                AfterRun(code, EndsOf(code, "."), IsWordOrDash, 1)), "{") # {}
  THEN "css"
  ELSE "javascript"

\* [a-zA-Z_$]
IsIdentStart(c) == IsLowerChar(c) \/ IsUpperChar(c) \/ c = "_" \/ c = "$"

\* [a-zA-Z0-9_$]
IsIdentChar(c) == IsIdentStart(c) \/ IsDigitChar(c)

\* [a-zA-Z0-9_$.]
IsPathChar(c) == IsIdentChar(c) \/ c = "."

IsNotCloseParen(c) == c # ")"

IsNotSemicolon(c) == c # ";"

\* (?=\s|$) holds at position i
SpaceOrEndAt(s, i) == i = Len(s) + 1 \/ (i <= Len(s) /\ IsSpaceChar(CharAt(s, i)))

\* a greedy run of the class C from position i: the position after it
RunEnd(s, i, C(_)) == Greatest(AfterRun(s, {i}, C, 0))

\* [a-zA-Z_$][a-zA-Z0-9_$]*\s*\([^)]*\) followed by (?=\s|$), from position q:
\* the position after the match, 0 when there is none
CallEnd(s, q) ==
  IF q > Len(s) \/ ~IsIdentStart(CharAt(s, q)) THEN 0
  ELSE LET a == RunEnd(s, RunEnd(s, q + 1, IsIdentChar), IsSpaceChar) IN
       IF ~MatchAt(s, a, "(") THEN 0
       ELSE LET b == RunEnd(s, a + 1, IsNotCloseParen) IN
            IF MatchAt(s, b, ")") /\ SpaceOrEndAt(s, b + 1) THEN b + 1 ELSE 0

\* [a-zA-Z_$][a-zA-Z0-9_$.]*\s*=\s*[^;]+;? followed by (?=\s|$), from
\* position q: the position after the match the backtracking finds first
\* (the longest), 0 when there is none
AssignmentEnd(s, q) ==
  IF q > Len(s) \/ ~IsIdentStart(CharAt(s, q)) THEN 0
  ELSE LET a == RunEnd(s, RunEnd(s, q + 1, IsPathChar), IsSpaceChar) IN
       IF ~MatchAt(s, a, "=") THEN 0
       ELSE LET last == RunEnd(s, a + 1, IsNotSemicolon)
                ends == {e \in (a + 2)..last : SpaceOrEndAt(s, e)}
            IN  IF last >= a + 2 /\ MatchAt(s, last, ";") /\ SpaceOrEndAt(s, last + 1)
                THEN last + 1
                ELSE IF ends # {} THEN Greatest(ends) ELSE 0

\* the group of the inline pattern from position q
FragmentEnd(s, q) == IF CallEnd(s, q) # 0 THEN CallEnd(s, q) ELSE AssignmentEnd(s, q)

\* (?:^|\s)(call|assignment)(?=\s|$) from position p
InlineMatchEnd(s, p) ==
  IF p = 1 /\ FragmentEnd(s, 1) # 0 THEN FragmentEnd(s, 1)
  ELSE IF IsSpaceChar(CharAt(s, p)) THEN FragmentEnd(s, p + 1)
  ELSE 0

\* the replacement callback of formatCodeBlocks
InlineReplacement(match) ==
  IF Len(Trim(match)) > 3 THEN " " \o Backtick \o Trim(match) \o Backtick ELSE match

RECURSIVE ReplaceInline(_, _), ReplaceInlineAt(_, _, _, _)
\* content.replace(/.../g, callback) from position p on: the text up to the
\* leftmost match is kept, the match is replaced, the scan goes on behind it
ReplaceInline(s, p) ==
  LET starts == {q \in p..Len(s) : InlineMatchEnd(s, q) # 0} IN
  IF starts = {} THEN From(s, p)
  ELSE ReplaceInlineAt(s, p, Least(starts), InlineMatchEnd(s, Least(starts)))

\* the match from q to e replaced, the scan going on at e
ReplaceInlineAt(s, p, q, e) ==
  SubSeq(s, p, q - 1) \o InlineReplacement(SubSeq(s, q, e - 1)) \o ReplaceInline(s, e)

formatCodeBlocks(content) ==
  IF Includes(content, Fence) THEN content
  ELSE IF isFullCodeResponse(content)
  THEN Fence \o detectLanguage(content) \o "\n" \o Trim(content) \o "\n" \o Fence
  ELSE ReplaceInline(content, 1)

\* ^ of a multiline pattern holds at position i
LineStartAt(s, i) == i = 1 \/ (i >= 2 /\ i <= Len(s) + 1 /\ CharAt(s, i - 1) = "\n")

\* $ of a multiline pattern holds at position i
LineEndAt(s, i) == i = Len(s) + 1 \/ (i <= Len(s) /\ CharAt(s, i) = "\n")

IsNotStar(c) == c # "*"

IsHash(c) == c = "#"

\* /^\*\*([^*]+)\*\*$/m from position p: the position after the match, or 0
BoldLineEnd(s, p) ==
  IF ~(LineStartAt(s, p) /\ MatchAt(s, p, "**")) THEN 0
  ELSE LET b == RunEnd(s, p + 2, IsNotStar) IN
       IF b > p + 2 /\ MatchAt(s, b, "**") /\ LineEndAt(s, b + 2) THEN b + 2 ELSE 0

RECURSIVE UnboldLines(_, _)
\* s.replace(/^\*\*([^*]+)\*\*$/gm, "$1") from position p on
UnboldLines(s, p) ==
  LET starts == {q \in p..Len(s) : BoldLineEnd(s, q) # 0} IN
  IF starts = {} THEN From(s, p)
  ELSE LET q == Least(starts)
           e == BoldLineEnd(s, q)
       IN  SubSeq(s, p, q - 1) \o SubSeq(s, q + 2, e - 3) \o UnboldLines(s, e)

\* /^#{1,6}\s+/m from position p: the position after the match, or 0
HeadingEnd(s, p) ==
  IF ~(LineStartAt(s, p) /\ MatchAt(s, p, "#")) THEN 0
  ELSE LET h == RunEnd(s, p, IsHash)
           e == RunEnd(s, h, IsSpaceChar)
       IN  IF h - p <= 6 /\ e > h THEN e ELSE 0

RECURSIVE BoldHeadings(_, _)
\* s.replace(/^#{1,6}\s+/gm, "**") from position p on
BoldHeadings(s, p) ==
  LET starts == {q \in p..Len(s) : HeadingEnd(s, q) # 0} IN
  IF starts = {} THEN From(s, p)
  ELSE LET q == Least(starts)
       IN  SubSeq(s, p, q - 1) \o "**" \o BoldHeadings(s, HeadingEnd(s, q))

IsNewline(c) == c = "\n"

RECURSIVE CollapseBlankLines(_, _)
\* s.replace(/\n{3,}/g, "\n\n") from position p on
CollapseBlankLines(s, p) ==
  LET starts == {q \in p..Len(s) : MatchAt(s, q, "\n\n\n")} IN
  IF starts = {} THEN From(s, p)
  ELSE LET q == Least(starts)
       IN  SubSeq(s, p, q - 1) \o "\n\n" \o CollapseBlankLines(s, RunEnd(s, q, IsNewline))

cleanDiscordMarkdown(content) ==
  Trim(CollapseBlankLines(BoldHeadings(UnboldLines(content, 1), 1), 1))

DiscordMaxLength == 2000

RECURSIVE TruncateSentences(_, _)
\* the loop of ensureDiscordLength over the sentences left, result so far given
TruncateSentences(sentences, result) ==
  IF sentences = <<>> THEN result
  ELSE IF Len(result \o Head(sentences)) > DiscordMaxLength - 50
  THEN result \o "... (truncated)"
  ELSE TruncateSentences(Tail(sentences), result \o Head(sentences) \o ".")

ensureDiscordLength(content) ==
  IF Len(content) <= DiscordMaxLength THEN content
  ELSE LET result == TruncateSentences(SplitSentences(content), "") IN
       IF result # "" THEN result
       ELSE SubSeq(content, 1, DiscordMaxLength - 20) \o "... (truncated)"

formatForDiscord(content, requiresCode) ==
  ensureDiscordLength(cleanDiscordMarkdown(
    IF requiresCode \/ containsCode(content) THEN formatCodeBlocks(content) ELSE content))

(***************************************************************************)
(* ResponseProcessor (src/src/services/ai/responseProcessor.ts, 48-107)    *)
(***************************************************************************)
RECURSIVE StripThink(_)
\* the two replacements of cleanContent: every <think>...</think>, then an
\* unclosed <think> with all that follows it (both case-insensitive)
StripThink(s) ==
  LET l == ToLower(s)
      opens == {i \in 1..Len(s) : MatchAt(l, i, "<think>")}
  IN  IF opens = {} THEN s
      ELSE LET a == Least(opens)
               closes == {j \in (a + 7)..Len(s) : MatchAt(l, j, "</think>")}
           IN  IF closes = {} THEN SubSeq(s, 1, a - 1)
               ELSE SubSeq(s, 1, a - 1) \o StripThink(From(s, Least(closes) + 8))

cleanContent(content) == Trim(StripThink(content))

\* content += "." unless it ends in . ! or ?
WithTerminator(content) ==
  IF EndsWithTerminator(content) THEN content ELSE content \o "."

ensureLength(content, requiresCode) ==
  LET maxLength == IF requiresCode THEN 400 ELSE 200
      sentences == SplitSentences(content)
      both == sentences[1] \o ". " \o sentences[2]
  IN  IF Len(content) <= maxLength THEN content
      ELSE IF 2 * Len(content) > 3 * maxLength THEN WithTerminator(sentences[1])
      ELSE IF Len(sentences) >= 2 /\ sentences[2] # "" /\ Len(both) <= maxLength
      THEN WithTerminator(both)
      ELSE WithTerminator(sentences[1])

\* the reactions, as names
reactions == <<"{blush}", "{thinking}", "{thumbsup}", "{smile}">>

\* addVariety: variety is 0 when Math.random() >= 0.03, otherwise the index
\* of the reaction the second Math.random() picks
addVariety(content, variety) ==
  IF variety = 0 THEN content ELSE content \o " " \o reactions[variety]

process(content, requiresCode, variety) ==
  addVariety(ensureLength(formatForDiscord(cleanContent(content), requiresCode),
                          requiresCode), variety)

(***************************************************************************)
(* AIService.generateResponse as a process: a request is suspended at the  *)
(* health probe, at a completion call and at a retry delay.  The           *)
(* continuation of an await on a settled promise is a microtask and is     *)
(* part of the step that settles it.                                       *)
(***************************************************************************)
\* the per-text functions are evaluated once for the texts of the model
searchMemo == [m \in KnownTexts |-> shouldSearchKnowledge(m)]

quickKeyMemo == [m \in KnownTexts |-> Trim(ToLower(m))]

Requests == {"q1", "q2"}

\* Date.now() when the service is constructed
GenStartTime == 100000

\* what KnowledgeService.searchKnowledge returns: "" stands for null
KnowledgeResults == {"", "Here's what I found in my knowledge base:"}

\* Math.random() of the canned replies, in percent
GenPicks == {0, 99}

\* Math.random() * 500 of the retry delay
Jitters == {0, 499}

\* the choices of addVariety
Varieties == {0, 1}

BackendContents == {"<think>hm</think>Why did the chicken cross the road?"}

processMemo ==
  [c \in BackendContents \cup {""}, rc \in BOOLEAN, v \in Varieties |-> process(c, rc, v)]


BackendOutcomes ==
  {HttpResponse(200, c) : c \in BackendContents \cup {""}}
  \cup {HttpResponse(s, "") : s \in {400, 404, 503}}
  \cup {FetchFailure(k) : k \in {"TypeError fetch", "TypeError other", "AbortError",
                                 "TimeoutError"}}

GenTickSteps == {HEALTH_CHECK_INTERVAL, HEALTH_CHECK_INTERVAL + 1}

IdleRequest ==
  [pc |-> "idle", message |-> "", ctx |-> 0, requiresCode |-> FALSE,
   knowledge |-> "", attempt |-> 0, healthNow |-> 0, due |-> 0,
   outcome |-> "none", result |-> "", path |-> "", error |-> 0,
   probes |-> 0, attempts |-> <<>>, delays |-> <<>>, searched |-> FALSE,
   cacheReads |-> 0, cacheWrites |-> 0, healthyAtStart |-> TRUE,
   supportAtCall |-> FALSE, calledAt |-> 0, doneAt |-> 0, content |-> "",
   checkedAtStart |-> 0, healthSeen |-> FALSE, cause |-> ""]

\* generateResponse returns text
Returned(g, path, text) ==
  [g EXCEPT !.pc = "done", !.outcome = "returned", !.path = path, !.result = text,
            !.doneAt = now]

\* mutation: there is no catch around the body of generateResponse
generateResponseCatch_none(g, error, rnd) ==
  [g EXCEPT !.pc = "done", !.outcome = "threw", !.path = "error",
            !.error = error.status, !.doneAt = now]

\* the catch of generateResponse: the text of handleAIError is returned
generateResponseCatch(g, error, rnd) ==
  [Returned(g, "error", handleAIError(error, rnd)) EXCEPT !.error = error.status]

\* callOllamaWithRetry issues a completion call
CallIssued(g) == [g EXCEPT !.pc = "calling"]

\* how an attempt ended, for the history of the request
AttemptCode(res) ==
  IF res.ok THEN "ok" ELSE IF res.error.status = 503 THEN "503" ELSE "failed"

\* generateResponse after a passed health gate, up to its return or its
\* first completion call: ctx is the context object, support the result of
\* shouldAcknowledgeSupport, searched that of shouldSearchKnowledge, lookup
\* what responseCache.get would give, quickResponse that of getQuickResponse
GenGenerate(r, g, ctx, support, searched, kres, lookup, quickResponse, rnd) ==
  LET knowledgeContext ==
        IF searched /\ kres # "" THEN "\n\nKnowledge Base Results:\n" \o kres ELSE ""
      readsCache == ~g.requiresCode /\ knowledgeContext = ""
      cache1 == IF readsCache THEN lookup.cache ELSE cache
      cached == IF readsCache THEN lookup.result ELSE <<>>
      quick == IF knowledgeContext = "" THEN quickResponse ELSE <<>>
      g1 == [g EXCEPT !.searched = searched, !.knowledge = knowledgeContext,
                      !.cacheReads = IF readsCache THEN 1 ELSE 0]
  IN
  IF support
  THEN /\ gen' = [gen EXCEPT ![r] =
                    [Returned(g, "support", RandomOf(supportResponses, rnd))
                       EXCEPT !.cacheWrites = 1]]
       /\ cache' = cacheSet(cache, g.message, ctx.userId, RandomOf(supportResponses, rnd), now)
  ELSE IF cached # <<>> /\ cached[1] # ""
  THEN /\ gen' = [gen EXCEPT ![r] = Returned(g1, "cache", cached[1])]
       /\ cache' = cache1
  ELSE IF quick # <<>> /\ ~g.requiresCode
  THEN /\ gen' = [gen EXCEPT ![r] =
                    [Returned(g1, "quick", quick[1]) EXCEPT !.cacheWrites = 1]]
       /\ cache' = cacheSet(cache1, g.message, ctx.userId, quick[1], now)
  ELSE /\ gen' = [gen EXCEPT ![r] = CallIssued(g1)]
       /\ cache' = cache1

\* mutation: generateResponse does not look at the result of the health gate
GenProceed_noGate(r, g, hp, healthy, kres, rnd) ==
  GenGenerate(r, [g EXCEPT !.healthSeen = healthy], hp[g.ctx],
              shouldAcknowledgeSupport(hp[g.ctx].messages),
              searchMemo[g.message], kres,
              cacheGet(cache, g.message, hp[g.ctx].userId, now),
              getQuickResponse(quickKeyMemo[g.message], rnd), rnd)

\* generateResponse from the result of ensureOllamaHealth on; hp holds the
\* context objects as this step finds them, healthy is what
\* ensureOllamaHealth returned
GenProceed(r, g, hp, healthy, kres, rnd) ==
  IF ~healthy
  THEN /\ gen' = [gen EXCEPT ![r] =
                    Returned([g EXCEPT !.healthSeen = healthy], "unavailable",
                             getServiceUnavailableResponse(rnd))]
       /\ UNCHANGED cache
  ELSE GenGenerate(r, [g EXCEPT !.healthSeen = healthy], hp[g.ctx],
                   shouldAcknowledgeSupport(hp[g.ctx].messages),
                   searchMemo[g.message], kres,
                   cacheGet(cache, g.message, hp[g.ctx].userId, now),
                   getQuickResponse(quickKeyMemo[g.message], rnd), rnd)

\* a caller invokes generateResponse(message, context, requiresCode): the
\* health gate, and what follows it when no probe is due
GenerateResponse(r, hp, message, ctxRef, requiresCode, kres, rnd) ==
  LET g == [IdleRequest EXCEPT !.message = message, !.ctx = ctxRef,
                               !.requiresCode = requiresCode,
                               !.healthyAtStart = isOllamaHealthy,
                               !.supportAtCall = shouldAcknowledgeSupport(hp[ctxRef].messages),
                               !.calledAt = now,
                               !.checkedAtStart = lastHealthCheck]
  IN
  /\ gen[r].pc \in {"idle", "done"}
  /\ genCalls' = genCalls + 1
  /\ IF now - lastHealthCheck > HEALTH_CHECK_INTERVAL
     THEN /\ gen' = [gen EXCEPT ![r] = [g EXCEPT !.pc = "probing", !.healthNow = now,
                                                 !.probes = 1]]
          /\ UNCHANGED cache
     ELSE GenProceed(r, g, hp, isOllamaHealthy, kres, rnd)
  /\ UNCHANGED <<now, isOllamaHealthy, lastHealthCheck>>

\* mutation: a probe never clears a flag that is down
HealthCheckDone_sticky(r, ok, kres, rnd) ==
  /\ gen[r].pc = "probing"
  /\ isOllamaHealthy' = (isOllamaHealthy /\ ok)
  /\ lastHealthCheck' = gen[r].healthNow
  /\ GenProceed(r, gen[r], heap, isOllamaHealthy /\ ok, kres, rnd)
  /\ UNCHANGED <<now, genCalls>>

\* the probe GET /api/version of ensureOllamaHealth settles: ok is response.ok,
\* FALSE also when the fetch fails
HealthCheckDone(r, ok, kres, rnd) ==
  /\ gen[r].pc = "probing"
  /\ isOllamaHealthy' = ok
  /\ lastHealthCheck' = gen[r].healthNow
  /\ GenProceed(r, gen[r], heap, ok, kres, rnd)
  /\ UNCHANGED <<now, genCalls>>

\* mutation: every generated response is stored in the cache
CallSettled_alwaysCaches(r, g, res, processedResponse, delay, rnd) ==
  LET tried == [g EXCEPT !.attempts = Append(@, AttemptCode(res))]
      writesCache == TRUE
  IN
  IF res.ok
  THEN /\ gen' = [gen EXCEPT ![r] =
                    [Returned(tried, "generated", processedResponse)
                       EXCEPT !.cacheWrites = IF writesCache THEN 1 ELSE 0,
                              !.content = res.content]]
       /\ cache' = IF writesCache
                   THEN cacheSet(cache, g.message, heap[g.ctx].userId, processedResponse, now)
                   ELSE cache
       /\ UNCHANGED <<isOllamaHealthy, lastHealthCheck>>
  ELSE IF g.attempt = Retries
  THEN /\ gen' = [gen EXCEPT ![r] = generateResponseCatch(tried, res.error, rnd)]
       /\ UNCHANGED <<cache, isOllamaHealthy, lastHealthCheck>>
  ELSE /\ gen' = [gen EXCEPT ![r] = [tried EXCEPT !.pc = "backoff", !.due = now + delay,
                                                   !.delays = Append(@, delay)]]
       /\ isOllamaHealthy' = FALSE
       /\ lastHealthCheck' = 0
       /\ UNCHANGED cache

\* callOllamaWithRetry and generateResponse from a settled completion call on:
\* res is what callOllama makes of it, processedResponse what
\* ResponseProcessor.process makes of its content, delay the retry delay
CallSettled(r, g, res, processedResponse, delay, rnd) ==
  LET tried == [g EXCEPT !.attempts = Append(@, AttemptCode(res))]
      writesCache == ~g.requiresCode /\ g.knowledge = ""
  IN
  IF res.ok
  THEN /\ gen' = [gen EXCEPT ![r] =
                    [Returned(tried, "generated", processedResponse)
                       EXCEPT !.cacheWrites = IF writesCache THEN 1 ELSE 0,
                              !.content = res.content]]
       /\ cache' = IF writesCache
                   THEN cacheSet(cache, g.message, heap[g.ctx].userId, processedResponse, now)
                   ELSE cache
       /\ UNCHANGED <<isOllamaHealthy, lastHealthCheck>>
  ELSE IF g.attempt = Retries
  THEN /\ gen' = [gen EXCEPT ![r] = generateResponseCatch(tried, res.error, rnd)]
       /\ UNCHANGED <<cache, isOllamaHealthy, lastHealthCheck>>
  ELSE /\ gen' = [gen EXCEPT ![r] = [tried EXCEPT !.pc = "backoff", !.due = now + delay,
                                                   !.delays = Append(@, delay)]]
       /\ isOllamaHealthy' = FALSE
       /\ lastHealthCheck' = 0
       /\ UNCHANGED cache

\* the fetch of a completion call settles; how the fetch of the last attempt
\* of a request ended is kept for the record
CallOllamaDone(r, outcome, jitter, variety, rnd) ==
  /\ gen[r].pc = "calling"
  /\ CallSettled(r, [gen[r] EXCEPT !.cause = IF gen[r].attempt = Retries
                                             THEN outcome.kind ELSE @],
                 callOllama(outcome),
                 processMemo[callOllama(outcome).content, gen[r].requiresCode, variety],
                 retryDelay(gen[r].attempt, jitter), rnd)
  /\ UNCHANGED <<now, genCalls>>

\* the timer of a retry delay fires, no earlier than it is due, and the next
\* attempt is issued
RetryDelayDone(r) ==
  /\ gen[r].pc = "backoff"
  /\ now' = Max(now, gen[r].due)
  /\ gen' = [gen EXCEPT ![r] = [CallIssued(gen[r]) EXCEPT !.attempt = @ + 1]]
  /\ UNCHANGED <<cache, isOllamaHealthy, lastHealthCheck, genCalls>>

(***************************************************************************)
(* MessageHandler.handle as a process (messageHandler.ts): an invocation   *)
(* is suspended at sendTyping, inside generateResponse, at the response    *)
(* delay, at message.reply and at the fallback channel.send.  The          *)
(* invocation q of handle makes the call q of generateResponse.            *)
(***************************************************************************)
\* message.member.displayName of the author
DisplayName(userId) == "name of " \o userId

\* the parent channel of a thread
ThreadParent(channelId) == "parent of " \o channelId

\* ConversationManager.getResponseDelay, rnd being Math.random() in percent
getResponseDelay(messageLength, rnd) ==
  LET baseDelay == 1000
      thinkingTime == Min(messageLength * 20, 3000)
      typingTime == Min(messageLength * 10, 2000)
  IN  ((baseDelay + thinkingTime + typingTime) * (50 + rnd)) \div 100

\* lines 78-88 of handle on the context it fetched
withCaller(ctx, msg) ==
  LET named == IF ctx.userProfile.name = "" /\ ~isDMChannel(msg.channelId)
               THEN [ctx EXCEPT !.userProfile.name = DisplayName(msg.authorId)]
               ELSE ctx
  IN  IF isThreadChannel(msg.channelId)
      THEN [named EXCEPT !.threadContext =
              <<[isThread |-> TRUE, parentChannelId |-> ThreadParent(msg.channelId),
                 threadName |-> msg.channelId]>>]
      ELSE named

IdleHandle ==
  [pc |-> "idle", msg |-> GateMessage("", FALSE, "", "", FALSE), requiresCode |-> FALSE,
   ctx |-> 0, response |-> "", updated |-> FALSE, outcome |-> "", retry |-> "none",
   retryDue |-> 0, failed |-> {}, deliveries |-> 0, errorReply |-> "none",
   errorReplyCaught |-> FALSE, rejected |-> FALSE]

\* a step of the invocation failed
Failing(hd, step) == [hd EXCEPT !.failed = @ \cup {step}]

\* a message.reply or channel.send is issued
Delivering(hd) == [hd EXCEPT !.deliveries = @ + 1]

\* handle returns
Handled(hd, outcome) == [hd EXCEPT !.pc = "done", !.outcome = outcome]

\* handleMessageError without a rejection handler on the error reply
handleMessageError_noCatch(hd, rnd) ==
  IF rnd < 30
  THEN [Delivering(hd) EXCEPT !.errorReply = "pending", !.errorReplyCaught = FALSE]
  ELSE hd

\* handleMessageError, rnd being its Math.random() in percent: it logs and
\* issues, for 30% of the errors, a message.reply with a rejection handler
\* that it does not await
handleMessageError(hd, rnd) ==
  IF rnd < 30
  THEN [Delivering(hd) EXCEPT !.errorReply = "pending", !.errorReplyCaught = TRUE]
  ELSE hd

\* the catch of handle (lines 173-175): handleMessageError, then handle returns
handleCatch(hd, rnd) == Handled(handleMessageError(hd, rnd), "error")

\* mutation: the result of checkRateLimits is not looked at
HandleInbound_limitsIgnored(q, msg, rnd) ==
  LET tracked == trackChannelActivity(channelActivity, msg.channelId, now)
      shouldProcess == shouldProcessMessage(msg, tracked, rnd)
      analysis == analysisOf(msg.content)
      userOk == checkUserLimit(userLimits, msg.authorId, UserMaxRequests, now).ok
      channelOk == checkChannelLimit(channelLimits, msg.channelId,
                                     channelLimitOf(msg.channelId), now).ok
      hd == [IdleHandle EXCEPT !.msg = msg, !.requiresCode = analysis.requiresCode]
  IN
  /\ handles[q].pc = "idle"
  /\ GateInbound(msg, rnd)
  /\ IF msg.authorBot \/ ~shouldProcess.should
     THEN /\ handles' = [handles EXCEPT ![q] = Handled(hd, "ignored")]
          /\ UNCHANGED rlVars
     ELSE /\ CheckRateLimits(msg.authorId, msg.channelId)
          /\ handles' = [handles EXCEPT ![q] =
                [hd EXCEPT !.pc = "typing"]]
  /\ UNCHANGED convLog

\* a messageCreate event: handle up to its first suspension, at sendTyping
HandleInbound(q, msg, rnd) ==
  LET tracked == trackChannelActivity(channelActivity, msg.channelId, now)
      shouldProcess == shouldProcessMessage(msg, tracked, rnd)
      analysis == analysisOf(msg.content)
      userOk == checkUserLimit(userLimits, msg.authorId, UserMaxRequests, now).ok
      channelOk == checkChannelLimit(channelLimits, msg.channelId,
                                     channelLimitOf(msg.channelId), now).ok
      hd == [IdleHandle EXCEPT !.msg = msg, !.requiresCode = analysis.requiresCode]
  IN
  /\ handles[q].pc = "idle"
  /\ GateInbound(msg, rnd)
  /\ IF msg.authorBot \/ ~shouldProcess.should
     THEN /\ handles' = [handles EXCEPT ![q] = Handled(hd, "ignored")]
          /\ UNCHANGED rlVars
     ELSE /\ CheckRateLimits(msg.authorId, msg.channelId)
          /\ handles' = [handles EXCEPT ![q] =
                IF userOk /\ channelOk THEN [hd EXCEPT !.pc = "typing"]
                ELSE Handled(hd, "rate limited")]
  /\ UNCHANGED convLog

\* sendTyping settles (a failure is only logged): getContext, lines 78-88,
\* and generateResponse up to its first suspension
SendTypingDone(q, ok, kres, rnd) ==
  LET hd == IF ok THEN handles[q] ELSE Failing(handles[q], "typing")
      u == hd.msg.authorId
      c == hd.msg.channelId
      r == getContextRef(contexts, heap, u, c)
      h1 == getContextHeap(contexts, heap, u, c, now)
      h2 == [h1 EXCEPT ![r] = withCaller(@, hd.msg)]
  IN
  /\ handles[q].pc = "typing"
  /\ contexts' = getContextMap(contexts, heap, u, c)
  /\ heap' = h2
  /\ appended' = IF Len(h1) > Len(heap) THEN Append(appended, <<>>) ELSE appended
  /\ convOps' = convOps + 1
  /\ GenerateResponse(q, h2, hd.msg.content, r, hd.requiresCode, kres, rnd)
  /\ handles' = [handles EXCEPT ![q] = [hd EXCEPT !.pc = "generating", !.ctx = r]]
  /\ convLog' = Append(convLog, [q |-> q, op |-> "read", ref |-> r])
  /\ UNCHANGED maxContextMessages

\* generateResponse has returned and the timer of the response delay fires:
\* message.reply is issued
ResponseDelayDone(q, rnd, errRnd) ==
  LET hd == handles[q]
      delay == getResponseDelay(Len(hd.msg.content), rnd)
  IN
  /\ hd.pc = "generating"
  /\ gen[q].pc = "done"
  /\ now' = Max(now, gen[q].doneAt + delay)
  /\ handles' = [handles EXCEPT ![q] =
        IF gen[q].outcome = "returned"
        THEN [Delivering(hd) EXCEPT !.pc = "replying", !.response = gen[q].result]
        ELSE handleCatch(Failing(hd, "generation"), errRnd)]
  /\ UNCHANGED convLog

\* the update of the context at the end of handle
HandleUpdateContext(q) ==
  /\ UpdateContext(handles[q].msg.authorId, handles[q].msg.channelId,
                   handles[q].msg.content, handles[q].response)
  /\ handles' = [handles EXCEPT ![q] = [Handled(@, "responded") EXCEPT !.updated = TRUE]]
  /\ convLog' = Append(convLog,
        [q |-> q, op |-> "write",
         ref |-> getContextRef(contexts, heap, handles[q].msg.authorId,
                               handles[q].msg.channelId)])

\* the outcomes of message.reply
ReplyOutcomes == {"ok", "rate limit", "failed"}

\* message.reply settles
ReplyDone(q, outcome) ==
  /\ handles[q].pc = "replying"
  /\ IF outcome = "ok" THEN HandleUpdateContext(q)
     ELSE /\ handles' = [handles EXCEPT ![q] =
                IF outcome = "rate limit"
                THEN [Handled(Failing(@, "reply"), "retry scheduled")
                        EXCEPT !.retry = "scheduled", !.retryDue = now + 1000]
                ELSE [Delivering(Failing(@, "reply")) EXCEPT !.pc = "fallback"]]
          /\ UNCHANGED <<now, convVars, convLog>>

\* the fallback channel.send settles: a failure is logged and thrown again
\* (line 156), which takes it to the catch of handle
FallbackSendDone(q, ok, rnd) ==
  /\ handles[q].pc = "fallback"
  /\ IF ok THEN HandleUpdateContext(q)
     ELSE /\ handles' = [handles EXCEPT ![q] = handleCatch(Failing(@, "fallback"), rnd)]
          /\ UNCHANGED <<now, convVars, convLog>>

\* the message.reply of handleMessageError settles: a rejection goes to the
\* handler attached to it, and is left unhandled when there is none
ErrorReplyDone(q, ok) ==
  /\ handles[q].errorReply = "pending"
  /\ handles' = [handles EXCEPT ![q] =
        IF ok THEN [@ EXCEPT !.errorReply = "sent"]
        ELSE [Failing(@, "error reply") EXCEPT !.errorReply = "failed",
                                              !.rejected = ~handles[q].errorReplyCaught]]
  /\ UNCHANGED <<now, convLog>>

\* the timer set after a rate-limited reply fires: channel.send is issued
RetrySendFired(q) ==
  /\ handles[q].retry = "scheduled"
  /\ now' = Max(now, handles[q].retryDue)
  /\ handles' = [handles EXCEPT ![q] = [Delivering(@) EXCEPT !.retry = "sent"]]
  /\ UNCHANGED convLog

\* the channel.send of the retry settles inside the try of the timer's
\* callback: a failure is logged
RetrySendDone(q, ok) ==
  /\ handles[q].retry = "sent"
  /\ handles' = [handles EXCEPT ![q] =
        IF ok THEN [@ EXCEPT !.retry = "delivered"]
        ELSE [Failing(@, "retry send") EXCEPT !.retry = "failed"]]
  /\ UNCHANGED <<now, convLog>>

(***************************************************************************)
(* A call of ResponseProcessor.process with the content of a completion    *)
(***************************************************************************)
RECURSIVE Repeat(_, _)
\* String.prototype.repeat
Repeat(s, n) ==
  IF n = 0 THEN ""
  ELSE IF n % 2 = 1 THEN s \o Repeat(s, n - 1)
  ELSE Repeat(s, n \div 2) \o Repeat(s, n \div 2)

\* completions handed to process without a code request: short ones, ones of
\* several sentences above the chat limit of 200, and ones without a
\* sentence end or with a single one at the very end, around the ceiling of
\* 2000 characters
ChatContents ==
  {"Sure thing", "<think>hm</think>Why did the chicken cross the road?",
   "# Title\n\n\n\nbody", Repeat("ab cd. ", 30), Repeat("ab cd! ", 60),
   Repeat(Repeat("a", 299) \o ". ", 8), Repeat("a", 250) \o ". " \o Repeat("b", 30) \o "."}
  \cup {Repeat("a", n) : n \in {1996, 1997, 1999, 2000, 2001}}
  \cup {Repeat("a", n) \o "." : n \in {1999, 2000}}

\* completions handed to process with a code request
CodeContents ==
  {"function add(a, b) { return a + b; }", "use x = 1; here",
   "const a = 1;\nconst b = 2;\nconsole.log(a + b);", "Sure thing",
   Repeat("ab cd. ", 70), Repeat("a", 450)}

\* the arguments of process
ProcessInputs ==
  {<<c, FALSE>> : c \in ChatContents} \cup {<<c, TRUE>> : c \in CodeContents}

\* the values of variety: 0 when addVariety appends nothing, otherwise the
\* index of the reaction it appends
ProcessVarieties == 0..Len(reactions)

NoProcessCall ==
  [pc |-> "none", content |-> "", requiresCode |-> FALSE, variety |-> 0, result |-> ""]

(***************************************************************************)
(* ModelManager.selectOptimalModel and AIService.initializeModel           *)
(***************************************************************************)
\* the position of the first element of the sequence that is in the set, 0
\* when there is none: Array.prototype.find
FirstIn(seq, set) ==
  IF \E i \in 1..Len(seq) : seq[i] \in set
  THEN CHOOSE i \in 1..Len(seq) :
         seq[i] \in set /\ \A k \in 1..(i - 1) : seq[k] \notin set
  ELSE 0

fallbacks ==
  <<"llama3.1:8b", "gemma2:2b", "qwen2.5:7b", "llama3.1:latest", "gemma2:latest">>

\* the answer to GET /api/tags: ok is response.ok of a fetch that settled,
\* models the names of data.models in the order of the answer
ModelListing(ok, models) == [ok |-> ok, models |-> models]

\* ModelManager.getAvailableModels followed by available.map(m => m.name)
getAvailableModels(listing) == IF listing.ok THEN listing.models ELSE <<>>

\* mutation: the fallback is looked for in the order of the backend's list
selectOptimalModel_listOrder(preferredModel, availableNames) ==
  IF preferredModel \in SeqElems(availableNames) THEN preferredModel
  ELSE IF FirstIn(availableNames, SeqElems(fallbacks)) # 0
  THEN availableNames[FirstIn(availableNames, SeqElems(fallbacks))]
  ELSE IF Len(availableNames) > 0 THEN availableNames[1]
  ELSE preferredModel

\* ModelManager.selectOptimalModel from the names of the available models on
selectOptimalModel(preferredModel, availableNames) ==
  IF preferredModel \in SeqElems(availableNames) THEN preferredModel
  ELSE IF FirstIn(fallbacks, SeqElems(availableNames)) # 0
  THEN fallbacks[FirstIn(fallbacks, SeqElems(availableNames))]
  ELSE IF Len(availableNames) > 0 THEN availableNames[1]
  ELSE preferredModel

NoSelection ==
  [called |-> FALSE, healthy |-> FALSE, preferred |-> "", listing |-> ModelListing(FALSE, <<>>),
   selected |-> ""]

InitModelVars == model = ConfiguredModel /\ selection = NoSelection

\* AIService.initializeModel: healthy is the result of its health check,
\* listing the answer to the model list request of selectOptimalModel
InitializeModel(healthy, listing) ==
  /\ ~selection.called
  /\ IF ~healthy
     THEN /\ selection' = [NoSelection EXCEPT !.called = TRUE, !.preferred = model]
          /\ UNCHANGED model
     ELSE LET optimalModel == selectOptimalModel(model, getAvailableModels(listing)) IN
          /\ selection' = [called |-> TRUE, healthy |-> TRUE, preferred |-> model,
                           listing |-> listing, selected |-> optimalModel]
          /\ model' = optimalModel

InitProcVars == proc = NoProcessCall

\* process(content, requiresCode) returns
ProcessCall(variety) ==
  /\ proc.pc = "called"
  /\ proc' = [proc EXCEPT !.pc = "done", !.variety = variety,
                          !.result = process(proc.content, proc.requiresCode, variety)]

(***************************************************************************)
(* Initial states of the components                                        *)
(***************************************************************************)
InitRLVars ==
  /\ userLimits = EmptyMap
  /\ channelLimits = EmptyMap
  /\ rlWindow = EmptyMap
  /\ rlLast = <<>>

InitConvVars ==
  /\ maxContextMessages \in ConfigContextValues
  /\ contexts = EmptyMap
  /\ heap = <<>>
  /\ appended = <<>>
  /\ convOps = 0

\* the session store as constructed under the default configuration
DefaultConvVars ==
  /\ maxContextMessages = DefaultMaxContextMessages
  /\ contexts = EmptyMap
  /\ heap = <<>>
  /\ appended = <<>>
  /\ convOps = 0

NoCacheCall ==
  [op |-> "none", message |-> "", userId |-> "", response |-> "", at |-> 0,
   from |-> <<>>, result |-> <<>>, before |-> <<>>, over |-> FALSE, anyFresh |-> FALSE]

InitCacheVars ==
  /\ cache = <<>>
  /\ cacheLast = NoCacheCall
  /\ cacheOps = 0

InitGateVars ==
  /\ channelActivity = EmptyMap
  /\ gateLast = NoGateCall

\* the fields of AIService as declared, and no request in flight
InitGenVars ==
  /\ isOllamaHealthy = TRUE
  /\ lastHealthCheck = 0
  /\ gen = [r \in Requests |-> IdleRequest]
  /\ genCalls = 0

InitHandleVars ==
  /\ handles = [q \in Requests |-> IdleHandle]
  /\ convLog = <<>>

(***************************************************************************)
(* SpecRL: the rate limiter driven by checkRateLimits                      *)
(***************************************************************************)
notRL == <<convVars, cacheVars, gateVars, genVars, handleVars, procVars, modelVars>>

TickRL ==
  /\ \E d \in RLTickSteps : now + d <= MaxNowRL /\ now' = now + d
  /\ UNCHANGED rlVars

InitRL ==
  /\ now = 0
  /\ InitRLVars
  /\ DefaultConvVars
  /\ InitCacheVars
  /\ InitGateVars
  /\ InitGenVars
  /\ InitHandleVars
  /\ InitProcVars
  /\ InitModelVars

NextRL ==
  \/ \E u \in RLUsers, c \in Channels : CheckRateLimits(u, c) /\ UNCHANGED notRL
  \/ RateLimiterCleanup /\ UNCHANGED notRL
  \/ TickRL /\ UNCHANGED notRL

SpecRL == InitRL /\ [][NextRL]_vars

(***************************************************************************)
(* SpecConv: the session store under every configured cap                  *)
(***************************************************************************)
notConv == <<rlVars, cacheVars, gateVars, genVars, handleVars, procVars, modelVars>>

TickConv ==
  /\ \E d \in ConvTickSteps : now + d <= MaxNowConv /\ now' = now + d
  /\ UNCHANGED convVars

InitConv ==
  /\ now = 0
  /\ InitRLVars
  /\ InitConvVars
  /\ InitCacheVars
  /\ InitGateVars
  /\ InitGenVars
  /\ InitHandleVars
  /\ InitProcVars
  /\ InitModelVars

NextConv ==
  \/ \E u \in Users, c \in ConvChannels :
        convOps < MaxConvOps /\ GetContext(u, c) /\ UNCHANGED notConv
  \/ \E u \in Users, c \in ConvChannels, m \in ConvTexts, b \in BotTexts :
        convOps < MaxConvOps /\ UpdateContext(u, c, m, b) /\ UNCHANGED notConv
  \/ CleanupOldContexts /\ UNCHANGED notConv
  \/ TickConv /\ UNCHANGED notConv

SpecConv == InitConv /\ [][NextConv]_vars

(***************************************************************************)
(* SpecCache: the response cache, starting empty or full                   *)
(***************************************************************************)
notCache == <<rlVars, convVars, gateVars, genVars, handleVars, procVars, modelVars>>

TickCache ==
  /\ \E d \in CacheTickSteps : now + d <= MaxNowCache /\ now' = now + d
  /\ UNCHANGED cacheVars

InitCache ==
  /\ now = 0
  /\ InitRLVars
  /\ DefaultConvVars
  /\ cache \in {<<>>, fillerEntries}
  /\ cacheLast = NoCacheCall
  /\ cacheOps = 0
  /\ InitGateVars
  /\ InitGenVars
  /\ InitHandleVars
  /\ InitProcVars
  /\ InitModelVars

NextCache ==
  \/ \E p \in CachePairs, r \in CacheResponses :
        CacheSet(p[1], p[2], r) /\ UNCHANGED notCache
  \/ \E p \in CachePairs : CacheGet(p[1], p[2]) /\ UNCHANGED notCache
  \/ TickCache /\ UNCHANGED notCache

SpecCache == InitCache /\ [][NextCache]_vars

(***************************************************************************)
(* SpecGate: inbound messages through activity tracking and the gate       *)
(***************************************************************************)
notGate == <<rlVars, convVars, cacheVars, genVars, handleVars, procVars, modelVars>>

GateMessages ==
  {GateMessage("u1", FALSE, c, text, mentioned) :
     c \in GateChannels, text \in GateTexts, mentioned \in BOOLEAN}
  \cup {GateMessage("b1", TRUE, c, "lol nice!", TRUE) : c \in GateChannels}

TickGate ==
  /\ \E d \in GateTickSteps : now + d <= MaxNowGate /\ now' = now + d
  /\ UNCHANGED gateVars

InitGate ==
  /\ now = 0
  /\ InitRLVars
  /\ DefaultConvVars
  /\ InitCacheVars
  /\ InitGateVars
  /\ InitGenVars
  /\ InitHandleVars
  /\ InitProcVars
  /\ InitModelVars

NextGate ==
  \/ \E msg \in GateMessages, rnd \in GateDraws :
        GateInbound(msg, rnd) /\ UNCHANGED notGate
  \/ TickGate /\ UNCHANGED notGate

SpecGate == InitGate /\ [][NextGate]_vars

(***************************************************************************)
(* SpecGen: generateResponse calls against every backend behaviour         *)
(***************************************************************************)
notGen == <<rlVars, gateVars, maxContextMessages, contexts, heap, appended, convOps,
            cacheLast, cacheOps, handleVars, procVars, modelVars>>

\* the turns held by the contexts the callers of SpecGen pass: none, and two
\* turns of which the latest stands up for the bot
GenHistory ==
  << <<>>,
     << <<"snurbo is so dumb", "ok">>, <<"stop messing with snurbo", "np">> >> >>

RECURSIVE withTurns(_, _, _)
withTurns(ctx, turns, t) ==
  IF turns = <<>> THEN ctx
  ELSE withTurns(updateContextObj(ctx, "u1", Head(turns)[1], Head(turns)[2],
                                  DefaultMaxContextMessages, t),
                 Tail(turns), t)

GenHeap ==
  [r \in 1..Len(GenHistory) |->
     withTurns(createNewContext("u1", "c1", GenStartTime), GenHistory[r], GenStartTime)]

\* the caller of SpecGen makes one call at a time
GenCallers == {"q1"}

\* the calls made: <<message, context, requiresCode>>
GenRequests ==
  {<<"hey", 1, FALSE>>, <<"hey", 1, TRUE>>, <<"what is docker?", 1, FALSE>>,
   <<"tell me a joke", 1, FALSE>>, <<"tell me a joke", 2, FALSE>>}

\* the fields of the service some time into its run: as constructed, after a
\* probe that succeeded or failed, after a failed completion attempt
HealthSeeds ==
  {<<TRUE, 0>>, <<TRUE, GenStartTime>>, <<FALSE, GenStartTime>>, <<FALSE, 0>>}

\* the cache some time into the run: empty, or holding a generated reply and
\* a quick response
CacheSeeds ==
  {<<>>, cacheSet(cacheSet(<<>>, "tell me a joke", "u1",
                           "Why did the chicken cross the road?", GenStartTime),
                  "hey", "u1", "Hey there!", GenStartTime)}

TickGen ==
  /\ \E d \in GenTickSteps : now + d <= MaxNowGen /\ now' = now + d
  /\ UNCHANGED <<cache, genVars>>

InitGen ==
  /\ now = GenStartTime
  /\ InitRLVars
  /\ maxContextMessages = DefaultMaxContextMessages
  /\ contexts = EmptyMap
  /\ heap = GenHeap
  /\ appended = [r \in 1..Len(GenHeap) |-> GenHeap[r].messages]
  /\ convOps = 0
  /\ cache \in CacheSeeds
  /\ cacheLast = NoCacheCall
  /\ cacheOps = 0
  /\ InitGateVars
  /\ \E h \in HealthSeeds : isOllamaHealthy = h[1] /\ lastHealthCheck = h[2]
  /\ gen = [r \in Requests |-> IdleRequest]
  /\ genCalls = 0
  /\ InitHandleVars
  /\ InitProcVars
  /\ InitModelVars

NextGen ==
  \/ \E r \in GenCallers, q \in GenRequests, kres \in KnowledgeResults, rnd \in GenPicks :
       /\ genCalls < MaxGenCalls
       /\ GenerateResponse(r, heap, q[1], q[2], q[3], kres, rnd)
       /\ UNCHANGED notGen
  \/ \E r \in Requests, ok \in BOOLEAN, kres \in KnowledgeResults, rnd \in GenPicks :
       HealthCheckDone(r, ok, kres, rnd) /\ UNCHANGED notGen
  \/ \E r \in Requests, outcome \in BackendOutcomes, jitter \in Jitters,
        variety \in Varieties, rnd \in GenPicks :
       CallOllamaDone(r, outcome, jitter, variety, rnd) /\ UNCHANGED notGen
  \/ \E r \in Requests : RetryDelayDone(r) /\ UNCHANGED notGen
  \/ TickGen /\ UNCHANGED notGen

SpecGen == InitGen /\ [][NextGen]_vars

\* the probe and the completion call are fetches with a timeout and the retry
\* delay is a timer: each of them settles
FairGen ==
  /\ WF_vars(\E r \in Requests, ok \in BOOLEAN, kres \in KnowledgeResults, rnd \in GenPicks :
               HealthCheckDone(r, ok, kres, rnd) /\ UNCHANGED notGen)
  /\ WF_vars(\E r \in Requests, outcome \in BackendOutcomes, jitter \in Jitters,
                 variety \in Varieties, rnd \in GenPicks :
               CallOllamaDone(r, outcome, jitter, variety, rnd) /\ UNCHANGED notGen)
  /\ WF_vars(\E r \in Requests : RetryDelayDone(r) /\ UNCHANGED notGen)

SpecGenLive == SpecGen /\ FairGen

(***************************************************************************)
(* SpecHandle: two invocations of handle in flight at a time               *)
(***************************************************************************)
\* the messages of one user in one channel: three that mention the bot, one
\* of them defending it, and one that does not
HandleMessages ==
  {GateMessage("u1", FALSE, "c1", "tell me a joke", TRUE),
   GateMessage("u1", FALSE, "c1", "hey", TRUE),
   GateMessage("u1", FALSE, "c1", "hey", FALSE),
   GateMessage("u1", FALSE, "c1", "stop messing with snurbo", TRUE)}

\* the completion calls of SpecHandle answer
HandleBackendOutcomes == {HttpResponse(200, c) : c \in BackendContents}

InitHandle ==
  /\ now = GenStartTime
  /\ InitRLVars
  /\ DefaultConvVars
  /\ InitCacheVars
  /\ InitGateVars
  /\ InitGenVars
  /\ InitHandleVars
  /\ InitProcVars
  /\ InitModelVars

NextHandle ==
  \/ \E q \in Requests, msg \in HandleMessages :
       HandleInbound(q, msg, 99)
         /\ UNCHANGED <<convVars, cacheVars, genVars, procVars, modelVars>>
  \/ \E q \in Requests :
       SendTypingDone(q, TRUE, "", 0)
         /\ UNCHANGED <<now, rlVars, gateVars, cacheLast, cacheOps, isOllamaHealthy,
                        lastHealthCheck, procVars, modelVars>>
  \/ \E q \in Requests, ok \in BOOLEAN :
       HealthCheckDone(q, ok, "", 0) /\ UNCHANGED notGen
  \/ \E q \in Requests, outcome \in HandleBackendOutcomes :
       CallOllamaDone(q, outcome, 0, 0, 0) /\ UNCHANGED notGen
  \/ \E q \in Requests :
       ResponseDelayDone(q, 0, 0)
         /\ UNCHANGED <<rlVars, convVars, cacheVars, gateVars, genVars, procVars, modelVars>>
  \/ \E q \in Requests, outcome \in ReplyOutcomes :
       ReplyDone(q, outcome) /\ UNCHANGED <<rlVars, cacheVars, gateVars, genVars, procVars, modelVars>>
  \/ \E q \in Requests, ok \in BOOLEAN :
       FallbackSendDone(q, ok, 99) /\ UNCHANGED <<rlVars, cacheVars, gateVars, genVars, procVars, modelVars>>
  \/ \E q \in Requests :
       RetrySendFired(q) /\ UNCHANGED <<rlVars, convVars, cacheVars, gateVars, genVars, procVars, modelVars>>

SpecHandle == InitHandle /\ [][NextHandle]_vars

(***************************************************************************)
(* SpecDeliver: two invocations of handle for one message each, with every *)
(* platform call failing or not                                            *)
(***************************************************************************)
\* the inbound messages of SpecDeliver
DeliverMessages == {GateMessage("u1", FALSE, "c1", "tell me a joke", TRUE)}

\* the values of Math.random() in handleMessageError, in percent, on either
\* side of 0.3
ErrorRnds == {29, 30}

NextDeliver ==
  \/ \E q \in Requests, msg \in DeliverMessages :
       HandleInbound(q, msg, 99)
         /\ UNCHANGED <<convVars, cacheVars, genVars, procVars, modelVars>>
  \/ \E q \in Requests, ok \in BOOLEAN :
       SendTypingDone(q, ok, "", 0)
         /\ UNCHANGED <<now, rlVars, gateVars, cacheLast, cacheOps, isOllamaHealthy,
                        lastHealthCheck, procVars, modelVars>>
  \/ \E q \in Requests :
       HealthCheckDone(q, TRUE, "", 0) /\ UNCHANGED notGen
  \/ \E q \in Requests, outcome \in HandleBackendOutcomes :
       CallOllamaDone(q, outcome, 0, 0, 0) /\ UNCHANGED notGen
  \/ \E q \in Requests :
       ResponseDelayDone(q, 0, 0)
         /\ UNCHANGED <<rlVars, convVars, cacheVars, gateVars, genVars, procVars, modelVars>>
  \/ \E q \in Requests, outcome \in ReplyOutcomes :
       ReplyDone(q, outcome) /\ UNCHANGED <<rlVars, cacheVars, gateVars, genVars, procVars, modelVars>>
  \/ \E q \in Requests, ok \in BOOLEAN, rnd \in ErrorRnds :
       FallbackSendDone(q, ok, rnd) /\ UNCHANGED <<rlVars, cacheVars, gateVars, genVars, procVars, modelVars>>
  \/ \E q \in Requests, ok \in BOOLEAN :
       ErrorReplyDone(q, ok)
         /\ UNCHANGED <<now, rlVars, convVars, cacheVars, gateVars, genVars, procVars, modelVars>>
  \/ \E q \in Requests :
       RetrySendFired(q) /\ UNCHANGED <<rlVars, convVars, cacheVars, gateVars, genVars, procVars, modelVars>>
  \/ \E q \in Requests, ok \in BOOLEAN :
       RetrySendDone(q, ok)
         /\ UNCHANGED <<now, rlVars, convVars, cacheVars, gateVars, genVars, procVars, modelVars>>

SpecDeliver == InitHandle /\ [][NextDeliver]_vars

(***************************************************************************)
(* SpecProcess: one call of ResponseProcessor.process                      *)
(***************************************************************************)
notProc == <<now, rlVars, convVars, cacheVars, gateVars, genVars, handleVars, modelVars>>

InitProcess ==
  /\ now = 0
  /\ InitRLVars
  /\ DefaultConvVars
  /\ InitCacheVars
  /\ InitGateVars
  /\ InitGenVars
  /\ InitHandleVars
  /\ InitModelVars
  /\ \E input \in ProcessInputs :
       proc = [NoProcessCall EXCEPT !.pc = "called", !.content = input[1],
                                    !.requiresCode = input[2]]

NextProcess ==
  \E variety \in ProcessVarieties : ProcessCall(variety) /\ UNCHANGED notProc

SpecProcess == InitProcess /\ [][NextProcess]_vars

(***************************************************************************)
(* SpecHealth: two callers of generateResponse in flight at a time, with   *)
(* completion calls and health probes that fail or not                     *)
(***************************************************************************)
MaxHealthCalls == 3    \* generateResponse calls per behaviour of SpecHealth

\* the call made: a message that reaches the backend
HealthRequests == {<<"tell me a joke", 1, FALSE>>}

\* a completion call answers or is refused
HealthBackendOutcomes ==
  {HttpResponse(200, c) : c \in BackendContents} \cup {HttpResponse(503, "")}

NextHealth ==
  \/ \E r \in Requests, q \in HealthRequests :
       /\ genCalls < MaxHealthCalls
       /\ GenerateResponse(r, heap, q[1], q[2], q[3], "", 0)
       /\ UNCHANGED notGen
  \/ \E r \in Requests, ok \in BOOLEAN :
       HealthCheckDone(r, ok, "", 0) /\ UNCHANGED notGen
  \/ \E r \in Requests, outcome \in HealthBackendOutcomes :
       CallOllamaDone(r, outcome, 0, 0, 0) /\ UNCHANGED notGen
  \/ \E r \in Requests : RetryDelayDone(r) /\ UNCHANGED notGen
  \/ TickGen /\ UNCHANGED notGen

SpecHealth == InitGen /\ [][NextHealth]_vars

(***************************************************************************)
(* SpecModel: the model selection at the construction of the service       *)
(***************************************************************************)
notModel == <<now, rlVars, convVars, cacheVars, gateVars, genVars, handleVars, procVars>>

\* the models a backend may list
ModelNames == {"llama3.1:8b", "gemma2:2b", "gemma2:latest", "mistral:7b", "phi3:mini"}

\* the configured model: a fallback, a model outside the fallback list, and
\* one no backend of the model lists
PreferredModels == {"llama3.1:8b", "mistral:7b", "custom:1b"}

RECURSIVE SeqsUpTo(_, _)
\* the sequences over set of length at most n
SeqsUpTo(set, n) ==
  IF n = 0 THEN {<<>>}
  ELSE LET shorter == SeqsUpTo(set, n - 1) IN
       shorter \cup {Append(s, x) : s \in shorter, x \in set}

ModelListings ==
  {ModelListing(TRUE, names) : names \in SeqsUpTo(ModelNames, MaxListing)}
  \cup {ModelListing(FALSE, <<>>)}

InitModel ==
  /\ now = 0
  /\ InitRLVars
  /\ DefaultConvVars
  /\ InitCacheVars
  /\ InitGateVars
  /\ InitGenVars
  /\ InitHandleVars
  /\ InitProcVars
  /\ model \in PreferredModels
  /\ selection = NoSelection

NextModel ==
  \E healthy \in BOOLEAN, listing \in ModelListings :
    InitializeModel(healthy, listing) /\ UNCHANGED notModel

SpecModel == InitModel /\ [][NextModel]_vars

(***************************************************************************)
(* SpecSession: the session store with several users and channels          *)
(***************************************************************************)
\* user and channel ids as the platform issues them: strings of digits
SessionUsers == {"1", "11"}

SessionChannels == {"1", "11"}

SessionPairs == SessionUsers \X SessionChannels

SessionTexts == {"lol music and gaming"}

NextSession ==
  \/ \E p \in SessionPairs :
        convOps < MaxConvOps /\ GetContext(p[1], p[2]) /\ UNCHANGED notConv
  \/ \E p \in SessionPairs, m \in SessionTexts, b \in BotTexts :
        convOps < MaxConvOps /\ UpdateContext(p[1], p[2], m, b) /\ UNCHANGED notConv

SpecSession == InitGate /\ [][NextSession]_vars

(***************************************************************************)
(* SpecProfile: the profile of a user over turns that name many topics     *)
(***************************************************************************)
ProfileTexts ==
  {"gaming music movies art sports food", "Food, travel, books, anime, manga and science",
   "lol music and gaming"}

NextProfile ==
  \/ \E u \in Users, c \in ConvChannels :
        convOps < MaxConvOps /\ GetContext(u, c) /\ UNCHANGED notConv
  \/ \E u \in Users, c \in ConvChannels, m \in ProfileTexts, b \in BotTexts :
        convOps < MaxConvOps /\ UpdateContext(u, c, m, b) /\ UNCHANGED notConv

SpecProfile == InitGate /\ [][NextProfile]_vars

(***************************************************************************)
(* SpecSimilar: the cache of one user asking similar questions             *)
(***************************************************************************)
NextSimilar ==
  \/ \E m \in SimilarTexts, r \in CacheResponses :
        CacheSet(m, "u1", r) /\ UNCHANGED notCache
  \/ \E m \in SimilarTexts : CacheGet(m, "u1") /\ UNCHANGED notCache

SpecSimilar == InitGate /\ [][NextSimilar]_vars

(***************************************************************************)
(* SpecSupport: two generateResponse calls of one user with one message,   *)
(* from a session whose latest turn stands up for the bot and from one     *)
(* that holds no turn, against an empty cache                              *)
(***************************************************************************)
MaxSupportCalls == 2   \* generateResponse calls per behaviour of SpecSupport

\* the calls made: <<message, context, requiresCode>>
SupportRequests ==
  {<<"tell me a joke", 1, FALSE>>, <<"tell me a joke", 2, FALSE>>,
   <<"what is docker?", 1, FALSE>>}

InitSupport ==
  /\ InitGen
  /\ cache = <<>>

NextSupport ==
  \/ \E r \in Requests, q \in SupportRequests, rnd \in GenPicks :
       /\ genCalls < MaxSupportCalls
       /\ gen[r].pc = "idle"
       /\ GenerateResponse(r, heap, q[1], q[2], q[3], "", rnd)
       /\ UNCHANGED notGen
  \/ \E r \in Requests, rnd \in GenPicks :
       HealthCheckDone(r, TRUE, "", rnd) /\ UNCHANGED notGen
  \/ \E r \in Requests, outcome \in HandleBackendOutcomes :
       CallOllamaDone(r, outcome, 0, 0, 0) /\ UNCHANGED notGen
  \/ TickGen /\ UNCHANGED notGen

SpecSupport == InitSupport /\ [][NextSupport]_vars

(***************************************************************************)
(* SpecRecover: two callers of generateResponse against a backend that     *)
(* answers every probe, from a flag that is up or down; completion calls   *)
(* answer or are refused                                                   *)
(***************************************************************************)
MaxRecoverCalls == 2   \* generateResponse calls per behaviour of SpecRecover

NextRecover ==
  \/ \E r \in Requests, q \in HealthRequests :
       /\ genCalls < MaxRecoverCalls
       /\ GenerateResponse(r, heap, q[1], q[2], q[3], "", 0)
       /\ UNCHANGED notGen
  \/ \E r \in Requests :
       HealthCheckDone(r, TRUE, "", 0) /\ UNCHANGED notGen
  \/ \E r \in Requests, outcome \in HealthBackendOutcomes :
       CallOllamaDone(r, outcome, 0, 0, 0) /\ UNCHANGED notGen
  \/ \E r \in Requests : RetryDelayDone(r) /\ UNCHANGED notGen
  \/ TickGen /\ UNCHANGED notGen

\* the probe is a fetch with a timeout of 5 seconds: it settles
FairRecover ==
  WF_vars(\E r \in Requests : HealthCheckDone(r, TRUE, "", 0) /\ UNCHANGED notGen)

SpecRecover == InitGen /\ [][NextRecover]_vars /\ FairRecover

(***************************************************************************)
(* SpecOrder: checkRateLimits for the messages of two users in a regular   *)
(* channel and a thread, within one window and after it                    *)
(***************************************************************************)
OrderUsers == {"u1", "u2"}

\* the clock jumps past the end of the windows opened so far
TickOrder ==
  /\ now = 0
  /\ now' = WindowMs + 1
  /\ UNCHANGED rlVars

NextOrder ==
  \/ \E u \in OrderUsers, c \in Channels : CheckRateLimits(u, c) /\ UNCHANGED notRL
  \/ RateLimiterCleanup /\ UNCHANGED notRL
  \/ TickOrder /\ UNCHANGED notRL

SpecOrder == InitRL /\ [][NextOrder]_vars

(***************************************************************************)
(* SpecDrop: handle for messages of a bot, messages the gate turns away    *)
(* and messages the limiter turns away, next to messages that are answered *)
(***************************************************************************)
\* the limiter after n checkRateLimits calls for user u in channel c at time t
RECURSIVE AfterChecks(_, _, _, _, _)
AfterChecks(st, u, c, n, t) ==
  IF n = 0 THEN st
  ELSE LET ur == checkUserLimit(st.user, u, UserMaxRequests, t)
           ue == CheckEvent(st.window, "user", u, UserMaxRequests, ur.ok, t)
           w1 == RecordCheck(st.window, ue, t)
           cr == checkChannelLimit(st.channel, c, channelLimitOf(c), t)
           ce == CheckEvent(w1, "channel", c, channelLimitOf(c), cr.ok, t)
       IN  AfterChecks(IF ur.ok
                       THEN [user |-> ur.map, channel |-> cr.map,
                             window |-> RecordCheck(w1, ce, t), last |-> <<ue, ce>>]
                       ELSE [user |-> ur.map, channel |-> st.channel,
                             window |-> w1, last |-> <<ue>>],
                       u, c, n - 1, t)

NoChecks == [user |-> EmptyMap, channel |-> EmptyMap, window |-> EmptyMap, last |-> <<>>]

\* the limiter some time into a minute: unused, after the cap of channel c1
\* was reached by u1, and after the cap of u1 was reached in thread t1
LimiterSeeds ==
  {NoChecks,
   AfterChecks(NoChecks, "u1", "c1", RegularChannelLimit, GenStartTime),
   AfterChecks(NoChecks, "u1", "t1", UserMaxRequests, GenStartTime)}

\* messages in channel c1, of a bot that mentions the bot and of user u1
\* with and without a mention, and a message of u1 in thread t1
DropMessages ==
  {GateMessage("b1", TRUE, "c1", "tell me a joke", TRUE),
   GateMessage("u1", FALSE, "c1", "tell me a joke", TRUE),
   GateMessage("u1", FALSE, "t1", "tell me a joke", TRUE),
   GateMessage("u1", FALSE, "c1", "hey", FALSE)}

InitDrop ==
  /\ now = GenStartTime
  /\ \E st \in LimiterSeeds :
       /\ userLimits = st.user
       /\ channelLimits = st.channel
       /\ rlWindow = st.window
       /\ rlLast = st.last
  /\ DefaultConvVars
  /\ InitCacheVars
  /\ InitGateVars
  /\ InitGenVars
  /\ InitHandleVars
  /\ InitProcVars
  /\ InitModelVars

NextDrop ==
  \/ \E q \in Requests, msg \in DropMessages :
       HandleInbound(q, msg, 99)
         /\ UNCHANGED <<convVars, cacheVars, genVars, procVars, modelVars>>
  \/ \E q \in Requests :
       SendTypingDone(q, TRUE, "", 0)
         /\ UNCHANGED <<now, rlVars, gateVars, cacheLast, cacheOps, isOllamaHealthy,
                        lastHealthCheck, procVars, modelVars>>
  \/ \E q \in Requests :
       HealthCheckDone(q, TRUE, "", 0) /\ UNCHANGED notGen
  \/ \E q \in Requests, outcome \in HandleBackendOutcomes :
       CallOllamaDone(q, outcome, 0, 0, 0) /\ UNCHANGED notGen
  \/ \E q \in Requests :
       ResponseDelayDone(q, 0, 0)
         /\ UNCHANGED <<rlVars, convVars, cacheVars, gateVars, genVars, procVars, modelVars>>
  \/ \E q \in Requests :
       ReplyDone(q, "ok") /\ UNCHANGED <<rlVars, cacheVars, gateVars, genVars, procVars, modelVars>>

SpecDrop == InitDrop /\ [][NextDrop]_vars

(***************************************************************************)
(* The claims                                                              *)
(***************************************************************************)
\* C1: within one unexpired window of a key (opened by the check that created
\* the entry, open while now <= resetTime) a check is allowed exactly when
\* fewer than max checks were allowed before it in that window: the first max
\* checks return true and every further check returns false.
C1_ExactlyMaxPerWindow ==
  /\ \A i \in 1..Len(rlLast) :
        rlLast[i].ok <=> (rlLast[i].fresh \/ rlLast[i].before < rlLast[i].max)
  /\ \A k \in DOMAIN rlWindow : rlWindow[k].allowed <= rlWindow[k].max

\* a check was denied in a window in which max checks had been allowed
C1_Witness ==
  \E i \in 1..Len(rlLast) :
    /\ ~rlLast[i].ok
    /\ ~rlLast[i].fresh
    /\ rlLast[i].before = rlLast[i].max

\* the last n elements of a sequence (all of it when it is shorter)
LastN(a, n) == IF Len(a) <= n THEN a ELSE SubSeq(a, Len(a) - n + 1, Len(a))

\* C2: for every configured cap N, every context holds at most N messages,
\* and they are the N most recently appended ones in their original order.
C2_HistoryCap ==
  \A r \in 1..Len(heap) :
    /\ Len(heap[r].messages) <= maxContextMessages
    /\ heap[r].messages = LastN(appended[r], maxContextMessages)

\* the same for the caps of at least one message
C2_HistoryCapPositive ==
  maxContextMessages >= 1 => C2_HistoryCap

\* C3: ResponseCache.set(m, u, r) followed immediately by get(m, u) returns
\* exactly r, whatever else the cache holds, also when the set evicted
\* entries and when other entries of the user are similar to m.
C3_SetThenGet ==
  (cacheLast.op = "set" /\ now = cacheLast.at) =>
     cacheGet(cache, cacheLast.message, cacheLast.userId, now).result
       = <<cacheLast.response>>

\* a set that went over capacity, on a cache that holds a similar entry of
\* the same user under another key, with another response
C3_Witness ==
  /\ cacheLast.op = "set"
  /\ now = cacheLast.at
  /\ cacheLast.over
  /\ \E i \in 1..Len(cache) :
       /\ cache[i].key # getKey(cacheLast.message, cacheLast.userId)
       /\ EndsWith(cache[i].key, "-" \o cacheLast.userId)
       /\ cache[i].response # cacheLast.response
       /\ findSimilarResponse(<<cache[i]>>, cacheLast.message, cacheLast.userId, now) # <<>>

\* C4: ResponseCache.get never returns the response of an entry whose age
\* is at least the TTL, by the exact lookup or by the similarity fallback;
\* when no entry of the cache is younger than the TTL it returns null.
C4_NeverStale ==
  cacheLast.op = "get" =>
    /\ \A i \in 1..Len(cacheLast.from) : cacheLast.at - cacheLast.from[i].timestamp < TTL
    /\ ~cacheLast.anyFresh => cacheLast.result = <<>>

\* a get at the moment the TTL of the entry stored under its key has just
\* elapsed: it returned null
C4_Witness ==
  /\ cacheLast.op = "get"
  /\ cacheLast.result = <<>>
  /\ \E i \in 1..Len(cache) :
       /\ cache[i].key = getKey(cacheLast.message, cacheLast.userId)
       /\ cacheLast.at - cache[i].timestamp = TTL

\* C5: a message that is not written by a bot and is a direct message or
\* mentions the bot is admitted by shouldProcessMessage, whatever the random
\* draw, the activity count of its channel or thread, and its text.
C5_DirectOrMentionAdmitted ==
  (gateLast.tracked /\ (isDMChannel(gateLast.msg.channelId) \/ gateLast.msg.mentionsBot))
     => gateLast.decision.should

\* a mention in a thread with 8 or more messages in the last minute, with a
\* text that is no question and does not name the bot, and a draw of 0.99
C5_Witness ==
  /\ gateLast.tracked
  /\ gateLast.msg.mentionsBot
  /\ isThreadChannel(gateLast.msg.channelId)
  /\ gateLast.count >= 8
  /\ gateLast.rnd = 99
  /\ gateLast.msg.content = "lol nice!"
  /\ gateLast.decision.should


\* the request is over and its completion attempts ended as the codes say
EndedWith(g, codes) == g.pc = "done" /\ g.attempts = codes

\* C6: when the completion call fails on attempts 0 and 1 and succeeds on
\* attempt 2, the content of the third call is what callOllamaWithRetry
\* returns (generateResponse returns it processed), exactly 2 delays were
\* waited, the delay after failed attempt k is at least 1000 * 2^k ms and
\* less than 500 ms more, both delays have elapsed when the request is over,
\* and no delay follows the successful attempt.
C6_RetryThenSuccess ==
  \A r \in Requests :
    LET g == gen[r] IN
    (g.pc = "done" /\ Len(g.attempts) = 3 /\ g.attempts[3] = "ok")
      => /\ g.attempts[1] # "ok" /\ g.attempts[2] # "ok"
         /\ g.outcome = "returned"
         /\ g.path = "generated"
         /\ g.content \in BackendContents
         /\ \E v \in Varieties : g.result = processMemo[g.content, g.requiresCode, v]
         /\ Len(g.delays) = 2
         /\ \A k \in 0..1 : /\ g.delays[k + 1] >= 1000 * (2 ^ k)
                            /\ g.delays[k + 1] < 1000 * (2 ^ k) + 500
         /\ g.doneAt - g.calledAt >= g.delays[1] + g.delays[2]
         /\ g.doneAt = now

\* a request that failed with 503, failed otherwise and then succeeded, after
\* delays of 1499 ms and 2000 ms
C6_Witness ==
  \E r \in Requests :
    /\ EndedWith(gen[r], <<"503", "failed", "ok">>)
    /\ gen[r].delays = <<1499, 2000>>
    /\ gen[r].result = "Why did the chicken cross the road?"

\* C7: when every completion attempt of a request ends in status 503, the
\* request makes exactly 3 attempts and returns the fixed text of status 503
\* as a normal result; no request makes more than 3 attempts.
C7_ExhaustionOn503 ==
  \A r \in Requests :
    LET g == gen[r] IN
    /\ Len(g.attempts) <= 3
    /\ (g.pc = "done" /\ g.attempts # <<>>
          /\ \A k \in 1..Len(g.attempts) : g.attempts[k] = "503")
         => /\ Len(g.attempts) = 3
            /\ g.outcome = "returned"
            /\ g.result =
                 "Looks like my brain is taking a coffee break {coffee} (Ollama service unavailable)"

\* a request whose three attempts ended in 503
C7_Witness ==
  \E r \in Requests :
    /\ EndedWith(gen[r], <<"503", "503", "503">>)
    /\ gen[r].outcome = "returned"
    /\ gen[r].error = 503

\* the texts generateResponse can return on its paths without a generated reply
CannedTexts ==
  SeqElems(supportResponses) \cup SeqElems(serviceUnavailableResponses)
    \cup SeqElems(fallbackResponses)
    \cup UNION {SeqElems(quickResponses[k]) : k \in DOMAIN quickResponses}
    \cup {handleAIError(OllamaServiceError(s), 0) : s \in {0, 400, 404, 408, 500, 503}}

\* C8: every call of generateResponse ends, and ends by returning text: no
\* call ends by throwing, whatever the probe, the knowledge search and the
\* completion calls did.
C8_Total ==
  /\ [](\A r \in Requests :
          gen[r].pc = "done" =>
            /\ gen[r].outcome = "returned"
            /\ gen[r].path \in {"unavailable", "support", "cache", "quick", "generated", "error"}
            /\ (gen[r].path \notin {"generated", "cache"} => gen[r].result \in CannedTexts))
  /\ \A r \in Requests :
       (gen[r].pc \in {"probing", "calling", "backoff"}) ~> (gen[r].pc = "done")

\* a request whose three attempts failed, the last one by a 2xx response
\* without content, and which returned the text of handleAIError
C8_Witness ==
  \E r \in Requests :
    /\ gen[r].pc = "done"
    /\ Len(gen[r].attempts) = 3
    /\ gen[r].path = "error"
    /\ gen[r].error = 0
    /\ gen[r].outcome = "returned"
    /\ gen[r].result =
         "Having some technical difficulties right now. Give me a moment to sort things out."

\* C10: whenever shouldAcknowledgeSupport holds for the context of a call,
\* the call issues no probe and no completion call, and it ends by returning
\* one of the acknowledgements, cached, also while the backend is flagged or
\* probed as unreachable.
C10_SupportFirst ==
  \A r \in Requests :
    gen[r].supportAtCall =>
      /\ gen[r].probes = 0
      /\ gen[r].attempts = <<>>
      /\ gen[r].pc = "done" =>
           /\ gen[r].path = "support"
           /\ gen[r].result \in SeqElems(supportResponses)
           /\ gen[r].cacheWrites = 1

\* the invocations of handle all got messages of one user in one channel
\* and completed their updateContext
BothUpdated ==
  /\ \A q \in Requests : handles[q].pc = "done" /\ handles[q].updated
  /\ \A p, q \in Requests :
       /\ handles[p].msg.authorId = handles[q].msg.authorId
       /\ handles[p].msg.channelId = handles[q].msg.channelId

\* both invocations read the context before either wrote it back
ReadBeforeWrite ==
  /\ Len(convLog) = 4
  /\ convLog[1].op = "read" /\ convLog[2].op = "read"
  /\ convLog[3].op = "write" /\ convLog[4].op = "write"
  /\ convLog[1].q # convLog[2].q

\* the context stored for the pair of the invocation q
StoredContext(q) ==
  heap[contexts[contextKey(handles[q].msg.authorId, handles[q].msg.channelId)]]

\* the two messages of the turn of q, without their timestamps
TurnOf(q) ==
  << <<"user", handles[q].msg.content>>, <<"assistant", handles[q].response>> >>

\* the stored history of the pair of q, without the timestamps
StoredTurns(q) ==
  [i \in 1..Len(StoredContext(q).messages) |->
     <<StoredContext(q).messages[i].role, StoredContext(q).messages[i].content>>]

\* the invocations that wrote, in the order of their writes
Writers == SelectSeq(convLog, LAMBDA e : e.op = "write")

\* the turn of q is missing from the stored history
TurnMissing(q) ==
  ~\E i \in 1..(Len(StoredTurns(q)) - 1) : SubSeq(StoredTurns(q), i, i + 1) = TurnOf(q)

\* C9 as the specification states it: when two invocations for one pair both
\* read the context before either writes it back and both complete their
\* updateContext, the turn of one of them is missing from the stored history
\* (the cap of 10 messages is not reached by 2 turns).
C9_LostUpdate ==
  (ReadBeforeWrite /\ BothUpdated) => \E q \in Requests : TurnMissing(q)

\* C9, amended: when two invocations for one pair both complete their
\* updateContext, in whatever order they read and wrote, the stored history
\* holds the turns of both, complete, in the order of the updateContext calls.
C9_BothTurnsKept ==
  BothUpdated =>
    /\ \A q \in Requests : ~TurnMissing(q)
    /\ \A q \in Requests :
         StoredTurns(q) = TurnOf(Writers[1].q) \o TurnOf(Writers[2].q)
    /\ \A q \in Requests : Len(StoredContext(q).messages) < maxContextMessages

\* both invocations read before either wrote, both completed updateContext,
\* and the one that read first wrote last
C9_Witness ==
  /\ ReadBeforeWrite
  /\ BothUpdated
  /\ convLog[1].q = convLog[4].q
  /\ handles[convLog[1].q].msg.content # handles[convLog[2].q].msg.content

\* the text is one that shouldAcknowledgeSupport accepts as the latest user
\* message: a defending pattern with a score above 0.6 and a reference to
\* the bot
DefendsBot(content) ==
  shouldAcknowledgeSupport(<<[role |-> "user", content |-> content]>>)

\* C11: when the inbound message itself defends the bot (score > 0.6, bot
\* referenced), the reply handle sends to that same message is one of the
\* canned acknowledgements.
C11_SupportForCurrentMessage ==
  \A q \in Requests :
    (handles[q].response # "" /\ DefendsBot(handles[q].msg.content))
      => handles[q].response \in SeqElems(supportResponses)

\* the defending message was answered with generated text and the message
\* after it, which defends nothing, with an acknowledgement
C11_AnsweredOneLate ==
  \E p, q \in Requests :
    /\ handles[p].updated /\ handles[q].updated
    /\ DefendsBot(handles[p].msg.content)
    /\ handles[p].response \notin SeqElems(supportResponses)
    /\ ~DefendsBot(handles[q].msg.content)
    /\ handles[q].response \in SeqElems(supportResponses)

\* the request r got past the health gate of generateResponse
PassedGate(r) ==
  \/ gen[r].pc \in {"calling", "backoff"}
  \/ gen[r].pc = "done" /\ gen[r].path # "unavailable"

\* C12: a generateResponse called while the health flag is false and was
\* refreshed less than 30 s before returns one of the service-unavailable
\* texts at once, without a probe, a cache access, a knowledge search or a
\* completion call; and every request that gets past the gate has seen the
\* flag true.
C12_HealthGate ==
  \A r \in Requests :
    /\ (/\ gen[r].pc # "idle"
        /\ ~gen[r].healthyAtStart
        /\ gen[r].calledAt - gen[r].checkedAtStart < HEALTH_CHECK_INTERVAL)
         => /\ gen[r].pc = "done"
            /\ gen[r].outcome = "returned"
            /\ gen[r].path = "unavailable"
            /\ gen[r].result \in SeqElems(serviceUnavailableResponses)
            /\ gen[r].doneAt = gen[r].calledAt
            /\ gen[r].probes = 0
            /\ gen[r].cacheReads = 0 /\ gen[r].cacheWrites = 0
            /\ ~gen[r].searched
            /\ gen[r].attempts = <<>>
    /\ PassedGate(r) => gen[r].healthSeen

\* a request was turned away by a flag that was false and fresh, and another
\* got past the gate after a probe
C12_Witness ==
  \E r \in Requests :
    /\ gen[r].pc = "done"
    /\ ~gen[r].healthyAtStart
    /\ gen[r].calledAt - gen[r].checkedAtStart < HEALTH_CHECK_INTERVAL
    /\ gen[r].path = "unavailable"

\* the non-stopword tokens of the texts of the model and of the texts the
\* cache stores for them, evaluated once
tokensMemo ==
  [text \in KnownTexts \cup CachedMessages |-> SeqElems(extractKeywords(text))]

\* the non-stopword tokens of a text
Tokens(text) == tokensMemo[text]

keysMemo == [u \in Users |-> {getKeyMemo[m, u] : m \in KnownTexts}]

\* the keys under which the cache stores the texts of the user u
KeysOf(u) == keysMemo[u]

\* the text query shares at least 80% of its own tokens with the text stored
SharesMostTokens(query, stored) ==
  /\ Tokens(query) # {}
  /\ 100 * Cardinality(Tokens(query) \cap Tokens(stored))
       >= 80 * Cardinality(Tokens(query))

\* the overlap of the two token sets is at least 80% of the larger of them
OverlapOfLarger(query, stored) ==
  /\ Tokens(query) # {} /\ Tokens(stored) # {}
  /\ 100 * Cardinality(Tokens(query) \cap Tokens(stored))
       >= 80 * Max(Cardinality(Tokens(query)), Cardinality(Tokens(stored)))

\* the entry at position i of the cache is younger than the TTL at the last call
FreshAtLastCall(i) == cacheLast.at - cache[i].timestamp < TTL

\* the positions of the entries the last get could take by similarity: those
\* of the caller that are younger than the TTL and whose stored, normalized
\* text overlaps with the query
SimilarCandidates ==
  {i \in 1..Len(cache) :
     /\ cache[i].key \in KeysOf(cacheLast.userId)
     /\ FreshAtLastCall(i)
     /\ OverlapOfLarger(cacheLast.message, cachedMessageOf(cache[i].key, cacheLast.userId))}

\* C13 as the specification states it: a get(m', u) returns the response
\* cached for m whenever u holds an unexpired entry for a textually
\* different m and m' shares at least 80% of its non-stopword tokens with m.
C13_SimilarityFallback ==
  cacheLast.op = "get" =>
    \A m \in CacheTexts :
      LET i == cacheIndex(cache, getKeyMemo[m, cacheLast.userId]) IN
      (/\ i # 0
       /\ FreshAtLastCall(i)
       /\ m # cacheLast.message
       /\ SharesMostTokens(cacheLast.message, m))
        => cacheLast.result = <<cache[i].response>>

\* C13, amended: a get(m', u) that finds no unexpired entry under the key of
\* m' returns the response of the first entry, in insertion order, among the
\* unexpired entries of u whose stored text has a token overlap with m' of
\* at least 80% of the larger of the two token sets, and null when there is
\* no such entry.
C13_FirstSimilarEntry ==
  cacheLast.op = "get" =>
    LET exact == cacheIndex(cache, getKeyMemo[cacheLast.message, cacheLast.userId]) IN
    IF exact # 0 /\ FreshAtLastCall(exact)
    THEN cacheLast.result = <<cache[exact].response>>
    ELSE IF SimilarCandidates = {} THEN cacheLast.result = <<>>
    ELSE cacheLast.result = <<cache[Least(SimilarCandidates)].response>>

\* a get answered from an entry stored under another key, and one more
\* unexpired entry of the user that shares all tokens of the query but has
\* one token more
C13_Witness ==
  /\ cacheLast.op = "get"
  /\ cacheLast.result # <<>>
  /\ cacheLast.from[1].key # getKey(cacheLast.message, cacheLast.userId)
  /\ \E i \in 1..Len(cache) :
       /\ cache[i].key \in KeysOf(cacheLast.userId)
       /\ FreshAtLastCall(i)
       /\ i \notin SimilarCandidates
       /\ SharesMostTokens(cacheLast.message, cachedMessageOf(cache[i].key, cacheLast.userId))

\* C14: the entry a get(m, u) answers from, by the exact lookup or by the
\* scan, is stored under a key of u and of no other user: a response stored
\* only by another user is never returned.
C14_CacheIsolation ==
  cacheLast.op = "get" =>
    \A i \in 1..Len(cacheLast.from) :
      /\ cacheLast.from[i].key \in KeysOf(cacheLast.userId)
      /\ \A v \in Users \ {cacheLast.userId} : cacheLast.from[i].key \notin KeysOf(v)
      /\ cacheLast.from[i].key # getKey(FillerText(1), FillerUser)
      /\ \E j \in 1..Len(cacheLast.before) : cacheLast.before[j] = cacheLast.from[i]

\* a get found nothing under its key and was answered by the scan, from an
\* entry of the caller, although an unexpired entry of another user with the
\* same text and another response comes first in the cache
C14_Witness ==
  /\ cacheLast.op = "get"
  /\ cacheLast.result # <<>>
  /\ cacheLast.from[1].key # getKey(cacheLast.message, cacheLast.userId)
  /\ \E v \in Users \ {cacheLast.userId} :
       LET j == cacheIndex(cache, getKeyMemo[cacheLast.message, v]) IN
       /\ j # 0
       /\ FreshAtLastCall(j)
       /\ cache[j].response # cacheLast.result[1]
       /\ j < cacheIndex(cache, cacheLast.from[1].key)

\* the positions in the cache before the last call of the entries that the
\* call removed although they had not expired
EvictedByLastCall ==
  LET keys == {cache[i].key : i \in 1..Len(cache)} IN
  {j \in 1..Len(cacheLast.before) :
     /\ cacheLast.before[j].key \notin keys
     /\ ~(cacheLast.at - cacheLast.before[j].timestamp > TTL)}

\* C15: the cache never holds more than MAX_ENTRIES entries; a set leaves
\* the entry it wrote in the cache; when it went over capacity every entry
\* it evicted is at least as old as every entry it kept, and when it did not
\* it removed nothing.
C15_Capacity ==
  /\ Len(cache) <= MAX_ENTRIES
  /\ cacheLast.op = "set" =>
       LET written == cacheIndex(cache, getKeyMemo[cacheLast.message, cacheLast.userId]) IN
       /\ written # 0
       /\ cache[written].response = cacheLast.response
       /\ cache[written].timestamp = cacheLast.at
       /\ \A j \in EvictedByLastCall, k \in 1..Len(cache) :
            cacheLast.before[j].timestamp <= cache[k].timestamp
       /\ IF cacheLast.over
          THEN Len(cache) = Min(MAX_ENTRIES, Len(cacheLast.before) + 1 - Cardinality(
                 {j \in 1..Len(cacheLast.before) :
                    cacheLast.at - cacheLast.before[j].timestamp > TTL}))
          ELSE {cacheLast.before[j].key : j \in 1..Len(cacheLast.before)}
                 \subseteq {cache[i].key : i \in 1..Len(cache)}
  /\ cacheLast.op = "get" => EvictedByLastCall = {}

\* a set on a full cache whose entries had not expired: one of the oldest
\* entries was evicted and the cache is full again
C15_Witness ==
  /\ cacheLast.op = "set"
  /\ cacheLast.over
  /\ Len(cacheLast.before) = MAX_ENTRIES
  /\ Cardinality(EvictedByLastCall) = 1
  /\ Len(cache) = MAX_ENTRIES
  /\ cacheLast.at > 0

\* the length of the text process returned, in UTF-16 code units as
\* String.prototype.length counts it: a reaction is 2 code units long
OutputLength ==
  IF proc.variety = 0 THEN Len(proc.result)
  ELSE Len(proc.result) - Len(reactions[proc.variety]) + 2

\* C16: whatever the completion, the text process returns is at most 2000
\* characters long.
C16_LengthCeiling ==
  proc.pc = "done" => OutputLength <= DiscordMaxLength

\* a completion of more than 2000 characters is cut below the ceiling
C16_LongCompletionCut ==
  (proc.pc = "done" /\ Len(proc.content) > DiscordMaxLength)
    => OutputLength <= DiscordMaxLength

\* C17: an inbound message leads to at most two platform delivery attempts,
\* the message.reply and one fallback channel.send.
C17_AtMostTwoDeliveries ==
  \A q \in Requests : handles[q].deliveries <= 2

\* after a failed message.reply exactly one channel.send is made for the
\* message, by the fallback or by the timer set on a rate limit
C17_OneFallbackSend ==
  \A q \in Requests :
    ("reply" \in handles[q].failed /\ handles[q].pc = "done" /\ handles[q].retry # "scheduled")
      => handles[q].deliveries - (IF handles[q].errorReply = "none" THEN 0 ELSE 1) = 2

\* C18: no invocation of handle ends in a rejected promise or leaves one
\* behind, whichever of sendTyping, message.reply, the fallback channel.send,
\* the retried channel.send and the error reply fail; a failure reaches the
\* catch of handle only from the fallback send, and an invocation in which
\* nothing but sendTyping failed answers the message and records the turn.
C18_NeverPropagates ==
  \A q \in Requests :
    /\ ~handles[q].rejected
    /\ handles[q].outcome = "error" <=> (handles[q].pc = "done" /\ "fallback" \in handles[q].failed)
    /\ (handles[q].pc = "done" /\ handles[q].failed = {"typing"})
         => handles[q].outcome = "responded" /\ handles[q].updated
    /\ handles[q].errorReply # "none" => handles[q].outcome = "error"

\* one invocation in which sendTyping failed has answered, and in another
\* the reply, the fallback send and the error reply have all failed
C18_Witness ==
  \E p, q \in Requests :
    /\ handles[p].pc = "done" /\ handles[p].failed = {"typing"}
    /\ handles[p].outcome = "responded"
    /\ handles[q].pc = "done"
    /\ handles[q].failed = {"typing", "reply", "fallback", "error reply"}

\* the caps of docs/commands.md, "Rate Limiting"
DocumentedUserCap == 15

DocumentedChannelCap == 3

DocumentedThreadCap == 5

\* the cap the documentation gives for the key of a window
DocumentedCap(k) ==
  IF k[1] = "user" THEN DocumentedUserCap
  ELSE IF isThreadChannel(k[2]) THEN DocumentedThreadCap
  ELSE DocumentedChannelCap

\* C19: in every 60-second window the handler admits at most 15 messages of
\* a user, at most 3 in a regular channel and at most 5 in a thread.
C19_DocumentedCaps ==
  \A k \in DOMAIN rlWindow : rlWindow[k].allowed <= DocumentedCap(k)

\* the caps checkRateLimits passes to the limiter: 15 for a user, 10 for a
\* regular channel, 15 for a thread
C19_CodeCaps ==
  \A k \in DOMAIN rlWindow :
    rlWindow[k].allowed <= (IF k[1] = "user" THEN UserMaxRequests ELSE channelLimitOf(k[2]))

\* the request r has just had a completion attempt fail
AttemptFailed(r) ==
  /\ gen[r].pc = "calling"
  /\ gen'[r].attempts # gen[r].attempts
  /\ gen'[r].attempts[Len(gen'[r].attempts)] # "ok"

\* C20: every failed completion attempt, the final one of a request
\* included, leaves the health flag false and the time of the last probe
\* reset, so that the next generateResponse probes before it uses the
\* backend.
C20_FailureMarksUnhealthy ==
  [][\A r \in Requests :
       AttemptFailed(r) => (~isOllamaHealthy' /\ lastHealthCheck' = 0)]_vars

\* a failed attempt that is followed by a retry marks the backend unhealthy
\* and forces the next probe
C20_RetriedFailureMarksUnhealthy ==
  [][\A r \in Requests :
       (AttemptFailed(r) /\ gen[r].attempt < Retries)
         => (~isOllamaHealthy' /\ lastHealthCheck' = 0)]_vars

\* the weaker half of C20: a failed attempt leaves the health flag false
C20_FlagFalseAfterFailure ==
  [][\A r \in Requests : AttemptFailed(r) => ~isOllamaHealthy']_vars


\* the time between the probes of two requests
ProbeDistance(p, q) ==
  IF gen[p].healthNow >= gen[q].healthNow
  THEN gen[p].healthNow - gen[q].healthNow
  ELSE gen[q].healthNow - gen[p].healthNow

\* C21: while no completion call fails, two health probes are never issued
\* within the same 30 seconds, also by requests that are in flight together.
C21_OneProbePerInterval ==
  \A p, q \in Requests :
    (p # q /\ gen[p].probes = 1 /\ gen[q].probes = 1)
      => ProbeDistance(p, q) > HEALTH_CHECK_INTERVAL

\* a request probes only when the last probe recorded at its call is more
\* than 30 seconds old
C21_ProbeOnlyWhenStale ==
  \A r \in Requests :
    gen[r].probes = 1 => gen[r].calledAt - gen[r].checkedAtStart > HEALTH_CHECK_INTERVAL

\* the request is code-required or knowledge-augmented
Augmented(g) == g.requiresCode \/ g.knowledge # ""

\* the cache holds, under the key of the request, the text it returned,
\* stored at time t
CachedAt(c, g, t) ==
  \E i \in 1..Len(c) :
    /\ c[i].key = getKeyMemo[g.message, heap[g.ctx].userId]
    /\ c[i].response = g.result
    /\ c[i].timestamp = t

\* C22: the step that returns a model-generated response stores it in the
\* cache exactly when the request is neither code-required nor
\* knowledge-augmented and leaves the cache alone otherwise; a code-required or
\* knowledge-augmented request does not touch the cache on its way to the
\* backend call and is never answered from the cache or by a quick response.
C22_CachedIffPlain ==
  [][\A r \in Requests :
       /\ (gen[r].pc = "calling" /\ gen'[r].pc = "done" /\ gen'[r].path = "generated")
            => IF Augmented(gen'[r]) THEN cache' = cache
               ELSE CachedAt(cache', gen'[r], now)
       /\ (gen[r].pc # "calling" /\ gen'[r].pc = "calling" /\ Augmented(gen'[r]))
            => cache' = cache
       /\ (gen'[r].pc = "done" /\ Augmented(gen'[r]))
            => gen'[r].path \notin {"cache", "quick"}]_vars

\* a code-required request was answered by the backend although the cache
\* held an entry under its key, and the entry is still the older one
C22_Witness ==
  \E r \in Requests :
    /\ gen[r].pc = "done" /\ gen[r].path = "generated" /\ gen[r].requiresCode
    /\ \E i \in 1..Len(cache) :
         /\ cache[i].key = getKeyMemo[gen[r].message, heap[gen[r].ctx].userId]
         /\ cache[i].response # gen[r].result

\* a plain request was answered by the backend and its reply is in the cache
C22_WitnessStored ==
  \E r \in Requests :
    /\ gen[r].pc = "done" /\ gen[r].path = "generated" /\ ~Augmented(gen[r])
    /\ CachedAt(cache, gen[r], gen[r].doneAt)

\* a knowledge-augmented request was answered by the backend
C22_WitnessKnowledge ==
  \E r \in Requests :
    /\ gen[r].pc = "done" /\ gen[r].path = "generated" /\ gen[r].knowledge # ""

\* the last message came from a user, in a channel of the given kind, and is
\* no direct message, no mention and does not name the bot
PlainMessageIn(thread) ==
  /\ gateLast.tracked
  /\ ~isDMChannel(gateLast.msg.channelId)
  /\ ~gateLast.msg.mentionsBot
  /\ ~isNameMentioned(gateLast.msg.content)
  /\ isThreadChannel(gateLast.msg.channelId) = thread

\* C23: a message outside a thread that is no direct message, no mention and
\* does not name the bot is not admitted when its channel counts 5 or more
\* messages in the last 60 seconds, itself included, whatever the draw.
C23_BusyChannelSuppressed ==
  (PlainMessageIn(FALSE) /\ gateLast.count >= 5) => ~gateLast.decision.should

\* such a message is not admitted when the channel counts more than 5
\* messages, and no draw is made for it
C23_SuppressedAboveFive ==
  (PlainMessageIn(FALSE) /\ gateLast.count > 5)
     => (~gateLast.decision.should /\ ~gateLast.decision.drew)

\* the sixth message of a minute in a channel was turned away
C23_AboveFiveReached ==
  PlainMessageIn(FALSE) /\ gateLast.count = 6 /\ gateLast.rnd = 0
    /\ ~gateLast.decision.should

\* the last message is a question above the confidence the thread path asks for
ThreadQuestion ==
  analysisOf(gateLast.msg.content).isQuestion
    /\ analysisOf(gateLast.msg.content).confidence > 8

\* C24: a thread message that is no direct message, no mention and does not
\* name the bot is admitted when it is a question with confidence above 0.4;
\* otherwise the draw is made exactly when the thread counts fewer than 8
\* messages, the draw decides then, and the message is not admitted when the
\* thread counts 8 or more.
C24_ThreadPath ==
  PlainMessageIn(TRUE) =>
    IF ThreadQuestion THEN gateLast.decision.should
    ELSE /\ gateLast.decision.drew = (gateLast.count < 8)
         /\ gateLast.decision.drew
              => gateLast.decision.should = (gateLast.rnd < chanceOf(gateLast.msg.content))
         /\ gateLast.count >= 8 => ~gateLast.decision.should

\* what the code does: the question shortcut as stated, the draw exactly when
\* the thread counts at most 5 messages, and no admission above that
C24_ThreadDrawUpToFive ==
  PlainMessageIn(TRUE) =>
    IF ThreadQuestion THEN gateLast.decision.should
    ELSE /\ gateLast.decision.drew = (gateLast.count <= 5)
         /\ gateLast.decision.drew
              => gateLast.decision.should = (gateLast.rnd < chanceOf(gateLast.msg.content))
         /\ gateLast.count > 5 => ~gateLast.decision.should

\* the seventh message of a minute in a thread, no question, was turned away
\* although the draw would have admitted it
C24_SeventhTurnedAway ==
  PlainMessageIn(TRUE) /\ ~ThreadQuestion /\ gateLast.count = 7
    /\ gateLast.rnd < chanceOf(gateLast.msg.content) /\ ~gateLast.decision.should

\* the step handles a message event in channel c: the timestamp of the event
\* is appended to the list of c, what is left of the older timestamps are
\* exactly those of the last 60 seconds, the gate reads the length of that
\* list, and the lists of the other channels are as before
TrackedIn(c) ==
  LET old == activityOf(channelActivity, c)
      new == activityOf(channelActivity', c)
  IN  /\ new # <<>>
      /\ new[Len(new)] = now
      /\ SubSeq(new, 1, Len(new) - 1)
           = SelectSeq(old, LAMBDA ts : now - ts < ActivityWindowMs)
      /\ \A i \in 1..Len(new) : now - new[i] < ActivityWindowMs
      /\ gateLast'.count = Len(new)
      /\ \A d \in GateChannels \ {c} :
           activityOf(channelActivity', d) = activityOf(channelActivity, d)

\* C25: every message event, whatever its author and whether or not it is
\* admitted, appends one timestamp to the activity list of its channel, the
\* list holds only timestamps of the trailing 60 seconds afterwards, and the
\* count the gate reads is its length.
C25_EveryEventTracked ==
  [][gateLast' # gateLast => TrackedIn(gateLast'.msg.channelId)]_vars

\* the same for the events whose author is no bot; the event of a bot's
\* message leaves every activity list as it is and does not reach the gate
C25_UserEventsTracked ==
  [][gateLast' # gateLast =>
       IF gateLast'.msg.authorBot
       THEN channelActivity' = channelActivity /\ ~gateLast'.tracked
       ELSE TrackedIn(gateLast'.msg.channelId)]_vars

\* a message that was not admitted was tracked a full window after the first
\* messages of its channel, and it counts alone
C25_Witness ==
  /\ gateLast.tracked /\ ~gateLast.decision.should
  /\ gateLast.at = ActivityWindowMs
  /\ activityOf(channelActivity, gateLast.msg.channelId) = <<ActivityWindowMs>>
  /\ gateLast.count = 1
  /\ \E d \in GateChannels : 0 \in SeqElems(activityOf(channelActivity, d))

\* C26: when the outbound reply of an answered message is sent, the session
\* store has been updated with the turn: the update precedes the reply.
C26_UpdateBeforeReply ==
  \A q \in Requests : handles[q].deliveries >= 1 => handles[q].updated

\* what the code does: the session store is updated only after a reply or a
\* fallback send of the generated response has succeeded, as the last step
C26_UpdateAfterDelivery ==
  \A q \in Requests :
    handles[q].updated
      => /\ handles[q].deliveries >= 1
         /\ handles[q].response # ""
         /\ handles[q].pc = "done" /\ handles[q].outcome = "responded"

\* a response went out by the retry timer after a rate-limited reply, and the
\* turn was never stored
C26_DeliveredNeverStored ==
  \E q \in Requests :
    /\ handles[q].pc = "done" /\ handles[q].retry = "delivered"
    /\ ~handles[q].updated

\* the failure categories of a completion call
FailureCategories == {"unavailable", "timeout", "not found", "bad request", "other"}

\* the category of the failure of the last attempt of a request that
\* exhausted its retries: cause is how the fetch ended, error the HTTP status
FailureCategory(g) ==
  IF g.cause = "TypeError fetch" \/ (g.cause = "response" /\ g.error = 503)
  THEN "unavailable"
  ELSE IF g.cause \in {"AbortError", "TimeoutError"}
            \/ (g.cause = "response" /\ g.error = 408)
  THEN "timeout"
  ELSE IF g.cause = "response" /\ g.error = 404 THEN "not found"
  ELSE IF g.cause = "response" /\ g.error = 400 THEN "bad request"
  ELSE "other"

\* the text handleAIError holds for a category
CategoryText(category) ==
  handleAIError(OllamaServiceError(
    CASE category = "unavailable" -> 503
      [] category = "timeout" -> 408
      [] category = "not found" -> 404
      [] category = "bad request" -> 400
      [] OTHER -> 500), 0)

\* the request exhausted its retries
Exhausted(g) ==
  g.pc = "done" /\ g.path = "error" /\ Len(g.attempts) = Retries + 1

\* C27: the texts of the five failure categories differ pairwise, and a
\* request that exhausted its retries returns the text of the category of
\* the failure of its last attempt.
C27_CategoryDecidesText ==
  /\ \A c1, c2 \in FailureCategories : c1 # c2 => CategoryText(c1) # CategoryText(c2)
  /\ \A r \in Requests :
       Exhausted(gen[r]) => gen[r].result = CategoryText(FailureCategory(gen[r]))

\* the same with the category taken from the status callOllama attached to
\* the failure
C27_StatusDecidesText ==
  \A r \in Requests :
    Exhausted(gen[r])
      => gen[r].result = handleAIError(OllamaServiceError(gen[r].error), 0)

\* a request whose last attempt ran into the 30 s timeout of the fetch and
\* that returned the text of the other failures
C27_TimeoutAsOther ==
  \E r \in Requests :
    /\ Exhausted(gen[r]) /\ gen[r].cause = "TimeoutError"
    /\ gen[r].result = CategoryText("other")

\* the names the selection had to choose from
AvailableNames == getAvailableModels(selection.listing)

\* C28: selectOptimalModel(preferred) returns preferred when the backend
\* lists it; otherwise the first entry of the fallback list, in the order of
\* that list, that the backend lists; otherwise the first model the backend
\* lists; otherwise, when the list is empty or the listing failed, preferred.
\* The result is preferred or a listed model, and it becomes the model of
\* the service.
C28_ModelSelection ==
  (selection.called /\ selection.healthy) =>
    LET names == SeqElems(AvailableNames)
        listed == {i \in 1..Len(fallbacks) : fallbacks[i] \in names}
    IN  /\ IF selection.preferred \in names THEN selection.selected = selection.preferred
           ELSE IF listed # {}
           THEN \E i \in listed :
                  selection.selected = fallbacks[i] /\ \A k \in listed : i <= k
           ELSE IF names # {} THEN selection.selected = selection.listing.models[1]
           ELSE selection.selected = selection.preferred
        /\ (~selection.listing.ok => selection.selected = selection.preferred)
        /\ selection.selected \in names \cup {selection.preferred}
        /\ model = selection.selected

\* the configured model is not listed, the backend lists two fallbacks with
\* the later one of the fallback list first, and the earlier one was selected
C28_Witness ==
  /\ selection.called /\ selection.healthy
  /\ selection.preferred = "mistral:7b"
  /\ selection.listing.models = <<"phi3:mini", "gemma2:latest", "gemma2:2b">>
  /\ model = "gemma2:2b"

\* no fallback is listed and the first listed model was selected
C28_FirstAvailable ==
  /\ selection.called /\ selection.healthy
  /\ selection.preferred = "custom:1b"
  /\ selection.listing.models = <<"phi3:mini", "mistral:7b">>
  /\ model = "phi3:mini"

\* the age of the context stored under key k
ContextAge(k) == now - heap[contexts[k]].lastInteraction

\* the step is a call of getContext or updateContext
SessionCall == convOps' = convOps + 1

\* the step removes contexts from the store
SweepStep == DOMAIN contexts' # DOMAIN contexts /\ DOMAIN contexts' \subseteq DOMAIN contexts

\* C29: a sweep removes exactly the contexts whose lastInteraction is more
\* than 24 hours old and leaves the other contexts, their histories, profiles
\* and thread contexts as they are; a getContext or updateContext call sets
\* lastInteraction of its context to the time of the call, removes no context
\* and leaves lastInteraction of the others alone; so no context is removed
\* within 24 hours of its last use.
C29_SweepEvictsIdleOnly ==
  [][/\ SweepStep =>
          /\ DOMAIN contexts' = {k \in DOMAIN contexts : ~(ContextAge(k) > MaxAgeMs)}
          /\ \A k \in DOMAIN contexts' : contexts'[k] = contexts[k]
          /\ heap' = heap
     /\ SessionCall =>
          /\ DOMAIN contexts \subseteq DOMAIN contexts'
          /\ \E k \in DOMAIN contexts' :
               /\ heap'[contexts'[k]].lastInteraction = now
               /\ \A j \in DOMAIN contexts \ {k} :
                    /\ contexts'[j] = contexts[j]
                    /\ heap'[contexts[j]] = heap[contexts[j]]
     /\ \A k \in DOMAIN contexts :
          /\ k \notin DOMAIN contexts' => ContextAge(k) > MaxAgeMs
          /\ \A i \in 1..Len(heap[contexts[k]].messages) :
               heap[contexts[k]].messages[i].timestamp <= heap[contexts[k]].lastInteraction
    ]_vars

\* the context of u1, last used a day and a millisecond ago, is gone; that of
\* u2, used half a day ago, is kept with its turn
C29_Witness ==
  /\ now = MaxAgeMs + 1
  /\ DOMAIN contexts = {contextKey("u2", "c1")}
  /\ \E r \in 1..Len(heap) :
       heap[r].userId = "u1" /\ heap[r].lastInteraction = 0 /\ heap[r].messages # <<>>
  /\ heap[contexts[contextKey("u2", "c1")]].messages # <<>>
  /\ now - heap[contexts[contextKey("u2", "c1")]].lastInteraction < MaxAgeMs

\* the stored contexts that the step created or changed
TouchedContexts ==
  {k \in DOMAIN contexts' :
     k \notin DOMAIN contexts \/ heap'[contexts'[k]] # heap[contexts[k]]}

\* the step appends no turn: it is a call of getContext
NoTurnAppended == \A r \in 1..Len(heap) : appended'[r] = appended[r]

\* every stored pair resolves to a context of its own user and channel, and
\* no two pairs to the same one
PairsResolveApart ==
  /\ \A p \in SessionPairs :
       contextKey(p[1], p[2]) \in DOMAIN contexts
         => /\ heap[contexts[contextKey(p[1], p[2])]].userId = p[1]
            /\ heap[contexts[contextKey(p[1], p[2])]].channelId = p[2]
  /\ \A p, q \in SessionPairs :
       (p # q /\ {contextKey(p[1], p[2]), contextKey(q[1], q[2])} \subseteq DOMAIN contexts)
         => contexts[contextKey(p[1], p[2])] # contexts[contextKey(q[1], q[2])]

\* C30: the store holds one context per (userId, channelId) pair: a pair
\* resolves to a context of its own user and channel, two pairs never to the
\* same one, getContext on a stored pair gives the stored object with its
\* history and profile as they were, and a call that creates or updates the
\* context of one pair leaves those of all other pairs unchanged.
C30_OneContextPerPair ==
  /\ []PairsResolveApart
  /\ [][SessionCall =>
          /\ \A k \in DOMAIN contexts : k \in DOMAIN contexts' /\ contexts'[k] = contexts[k]
          /\ Cardinality(TouchedContexts) <= 1
          /\ NoTurnAppended =>
               \A r \in 1..Len(heap) :
                 /\ heap'[r].messages = heap[r].messages
                 /\ heap'[r].userProfile = heap[r].userProfile
       ]_vars

\* the four pairs of two users and two channels whose ids run into one
\* another hold three contexts, one of them with a turn of its own
C30_Witness ==
  /\ {contextKey("1", "11"), contextKey("11", "1"), contextKey("1", "1")} = DOMAIN contexts
  /\ heap[contexts[contextKey("11", "1")]].messages # <<>>
  /\ heap[contexts[contextKey("1", "11")]].messages = <<>>

\* the preferred topics of the context object at r
TopicsOf(h, r) == h[r].userProfile.preferredTopics

\* the topics of every context are at most 10 and hold no topic twice
TopicsBounded ==
  \A r \in 1..Len(heap) :
    /\ Len(TopicsOf(heap, r)) <= 10
    /\ \A i, j \in 1..Len(TopicsOf(heap, r)) :
         TopicsOf(heap, r)[i] = TopicsOf(heap, r)[j] => i = j

\* C31: over the updateContext calls on a context its preferredTopics never
\* shrink, never hold a topic twice, never exceed 10 entries, and the entries
\* they have keep their places: new topics are appended at the end.
C31_TopicsOnlyGrow ==
  /\ []TopicsBounded
  /\ [][\A r \in 1..Len(heap) :
          /\ Len(TopicsOf(heap', r)) >= Len(TopicsOf(heap, r))
          /\ SubSeq(TopicsOf(heap', r), 1, Len(TopicsOf(heap, r))) = TopicsOf(heap, r)
       ]_vars

\* a context with 10 topics whose last turn named a topic that found no room
C31_Witness ==
  \E r \in 1..Len(heap) :
    /\ Len(TopicsOf(heap, r)) = 10
    /\ heap[r].messages # <<>>
    /\ \E i \in 1..Len(heap[r].messages) :
         /\ heap[r].messages[i].role = "user"
         /\ \E topic \in SeqElems(extractTopics(heap[r].messages[i].content)) :
              topic \notin SeqElems(TopicsOf(heap, r))

\* the last call is a get that the scan for a similar entry answered
AnsweredBySimilarity ==
  /\ cacheLast.op = "get"
  /\ cacheLast.from # <<>>
  /\ cacheLast.from[1].key # getKeyMemo[cacheLast.message, cacheLast.userId]

\* the token sets of the query and of the text stored with the entry that
\* answered the last get
QueryTokens == Tokens(cacheLast.message)

StoredTokens == Tokens(cachedMessageOf(cacheLast.from[1].key, cacheLast.userId))

\* C32: the scan for a similar entry answers a get only from an entry whose
\* Jaccard similarity to the query is at least 0.8: the tokens both have are
\* at least 80% of the tokens either has.
C32_JaccardThreshold ==
  AnsweredBySimilarity =>
    100 * Cardinality(QueryTokens \cap StoredTokens)
      >= SIMILARITY_THRESHOLD * Cardinality(QueryTokens \cup StoredTokens)

\* what the code measures: the tokens both have are at least 80% of the
\* larger of the two token sets, and neither set is empty
C32_OverlapOfLargerSet ==
  AnsweredBySimilarity =>
    /\ QueryTokens # {} /\ StoredTokens # {}
    /\ 100 * Cardinality(QueryTokens \cap StoredTokens)
         >= SIMILARITY_THRESHOLD * Max(Cardinality(QueryTokens), Cardinality(StoredTokens))

\* a get answered from an entry that has 4 of 5 tokens in common with the
\* query, 4 of the 6 tokens the two have together
C32_Witness ==
  /\ AnsweredBySimilarity
  /\ Cardinality(QueryTokens) = 5 /\ Cardinality(StoredTokens) = 5
  /\ Cardinality(QueryTokens \cap StoredTokens) = 4
  /\ Cardinality(QueryTokens \cup StoredTokens) = 6

\* the entries i and i + 1 of the history are the message and the reply of
\* one invocation of handle that completed its updateContext
TurnOfOneInvocation(messages, i) ==
  \E q \in Requests :
    /\ handles[q].updated
    /\ messages[i].content = handles[q].msg.content
    /\ messages[i].userId = handles[q].msg.authorId
    /\ messages[i + 1].content = handles[q].response

\* C33: in every stored history each user message is directly followed by
\* the assistant reply generated for it, and each assistant entry directly
\* follows a user message, in whatever order the concurrent invocations of
\* handle read and wrote the context.
C33_TurnsAdjacent ==
  \A r \in 1..Len(heap) :
    \A i \in 1..Len(heap[r].messages) :
      IF heap[r].messages[i].role = "user"
      THEN /\ i < Len(heap[r].messages)
           /\ heap[r].messages[i + 1].role = "assistant"
           /\ TurnOfOneInvocation(heap[r].messages, i)
      ELSE i > 1 /\ heap[r].messages[i - 1].role = "user"

\* two invocations on one context read it before either wrote, and both
\* stored their turns, with different messages and different replies
C33_Witness ==
  /\ ReadBeforeWrite
  /\ BothUpdated
  /\ handles["q1"].msg.content # handles["q2"].msg.content
  /\ handles["q1"].response # handles["q2"].response
  /\ Len(StoredContext("q1").messages) = 4

\* with a history cap in force every user message is directly followed by an
\* assistant entry, and an assistant entry without its user message is the
\* first of the history
C33_AdjacentUnderCap ==
  \A r \in 1..Len(heap) :
    \A i \in 1..Len(heap[r].messages) :
      IF heap[r].messages[i].role = "user"
      THEN i < Len(heap[r].messages) /\ heap[r].messages[i + 1].role = "assistant"
      ELSE i = 1 \/ heap[r].messages[i - 1].role = "user"

\* the generated response of the invocation reached the platform: by the
\* reply, by the fallback send, or by the send of the retry timer
ResponseDelivered(q) ==
  \/ handles[q].pc = "done" /\ handles[q].outcome = "responded"
  \/ handles[q].retry = "delivered"

\* the (message, response) pair of the invocation is in the stored history of
\* its context
PairStored(q) ==
  /\ contextKey(handles[q].msg.authorId, handles[q].msg.channelId) \in DOMAIN contexts
  /\ ~TurnMissing(q)

\* C34: when the generated response of a message has been delivered, by
\* message.reply, by the fallback send or by the delayed send after a platform
\* rate-limit error, and handle is over, the pair of message and response is
\* in the session history; and a pair is stored only after a delivery of it
\* did not fail.
C34_HistoryMatchesDelivery ==
  \A q \in Requests :
    /\ (ResponseDelivered(q) /\ handles[q].pc = "done") => (handles[q].updated /\ PairStored(q))
    /\ handles[q].updated => ResponseDelivered(q)

\* what the code does: the pair is stored exactly when handle ends after a
\* reply or a fallback send that succeeded
C34_StoredAfterReplyOrFallback ==
  \A q \in Requests :
    /\ (handles[q].pc = "done" /\ handles[q].outcome = "responded")
         => (handles[q].updated /\ PairStored(q))
    /\ handles[q].updated => (handles[q].pc = "done" /\ handles[q].outcome = "responded")
    /\ handles[q].retry # "none" => ~handles[q].updated

\* the call of r returned one of the acknowledgements
Acknowledged(r) ==
  /\ gen[r].pc = "done"
  /\ gen[r].result \in SeqElems(supportResponses)

\* C35: generateResponse returns one of the thank-you acknowledgements only
\* to a call whose context satisfies shouldAcknowledgeSupport; a later call of
\* the same user with the same message and no defending context never gets it.
C35_NoAcknowledgementLeak ==
  \A r \in Requests : Acknowledged(r) => gen[r].supportAtCall

\* a call with a defending context was acknowledged, and a call of the same
\* user with the same message and a context that defends nothing was answered
\* with that acknowledgement, from the cache
C35_LeakedThroughCache ==
  \E p, r \in Requests :
    /\ Acknowledged(p) /\ gen[p].supportAtCall /\ gen[p].path = "support"
    /\ Acknowledged(r) /\ ~gen[r].supportAtCall /\ gen[r].path = "cache"
    /\ gen[r].message = gen[p].message
    /\ gen[r].result = gen[p].result

\* the acknowledgements are returned by the support path and by the cache
\* lookup, and by no other path of generateResponse
C35_AcknowledgedBySupportOrCache ==
  \A r \in Requests : Acknowledged(r) => gen[r].path \in {"support", "cache"}

\* this step is the call of generateResponse by r
CallStep(r) ==
  /\ gen[r].pc \in {"idle", "done"}
  /\ genCalls' # genCalls
  /\ gen'[r] # gen[r]

\* the flag is down and a probe is due: more than 30 s have passed since the
\* probe that failed, or a failed completion call has reset lastHealthCheck
ProbeDue ==
  /\ ~isOllamaHealthy
  /\ \/ now - lastHealthCheck > HEALTH_CHECK_INTERVAL
     \/ lastHealthCheck = 0

\* the call of r is past the health gate
PastHealthGate(r) ==
  /\ gen[r].pc # "probing"
  /\ gen[r].probes = 1
  /\ gen[r].healthSeen
  /\ gen[r].path # "unavailable"

\* C36: with a backend that answers its probes, a call made while the flag is
\* down and a probe is due issues a probe; when the probe settles the flag is
\* up again, and the call goes on past the health gate.
C36_UnhealthyNotAbsorbing ==
  /\ [][\A r \in Requests :
          /\ (CallStep(r) /\ ProbeDue) => gen'[r].pc = "probing"
          /\ (gen[r].pc = "probing" /\ gen'[r].pc # "probing")
               => (isOllamaHealthy' /\ PastHealthGate(r)')]_vars
  /\ \A r \in Requests : (gen[r].pc = "probing") ~> PastHealthGate(r)

\* a call made while the flag was down has probed, found the backend, and
\* gone on past the gate with the flag up
C36_Witness ==
  \E r \in Requests :
    /\ ~gen[r].healthyAtStart
    /\ PastHealthGate(r)
    /\ isOllamaHealthy
    /\ gen[r].pc = "done" /\ gen[r].path = "generated"

\* the limiter that is never swept: the entry it holds for a key of a map
ShadowEntry(mapName, key) ==
  [count |-> rlWindow[<<mapName, key>>].allowed,
   resetTime |-> rlWindow[<<mapName, key>>].until]

\* a map of the limiter holds what the limiter that is never swept holds,
\* apart from entries whose window is over
AgreesWithUnswept(limitMap, mapName) ==
  /\ \A key \in DOMAIN limitMap : <<mapName, key>> \in DOMAIN rlWindow
  /\ \A k \in DOMAIN rlWindow :
       k[1] = mapName =>
         IF k[2] \in DOMAIN limitMap
         THEN limitMap[k[2]] = ShadowEntry(mapName, k[2])
         ELSE now > rlWindow[k].until

\* what a step that deletes an entry of a map does to that map
SweepsExpired(limitMap, limitMapNext) ==
  (DOMAIN limitMap \ DOMAIN limitMapNext # {}) =>
     /\ DOMAIN limitMapNext = {k \in DOMAIN limitMap : ~(now > limitMap[k].resetTime)}
     /\ \A k \in DOMAIN limitMapNext : limitMapNext[k] = limitMap[k]

\* C37: a step that deletes entries deletes the entries with now > resetTime
\* of both maps and leaves the others as they are, and whatever sweeps ran,
\* every check is answered as the limiter that is never swept answers it.
C37_SweepTransparent ==
  /\ [](/\ AgreesWithUnswept(userLimits, "user")
        /\ AgreesWithUnswept(channelLimits, "channel")
        /\ \A i \in 1..Len(rlLast) :
             rlLast[i].ok <=> (rlLast[i].fresh \/ rlLast[i].before < rlLast[i].max))
  /\ [][/\ SweepsExpired(userLimits, userLimits')
        /\ SweepsExpired(channelLimits, channelLimits')
        /\ (DOMAIN userLimits \ DOMAIN userLimits' # {})
             => (now' = now /\ rlLast' = rlLast /\ rlWindow' = rlWindow)]_vars

\* the latest check was denied in an open window, after a sweep has removed
\* the entry of a channel whose window is over
C37_Witness ==
  /\ \E i \in 1..Len(rlLast) : ~rlLast[i].ok /\ ~rlLast[i].fresh
  /\ \E k \in DOMAIN rlWindow :
       /\ k[1] = "channel"
       /\ k[2] \notin DOMAIN channelLimits
       /\ now > rlWindow[k].until

\* this step is a checkRateLimits call: the clock stands and no entry goes
CheckRateLimitsStep ==
  /\ now' = now
  /\ DOMAIN userLimits \subseteq DOMAIN userLimits'
  /\ DOMAIN channelLimits \subseteq DOMAIN channelLimits'
  /\ <<userLimits, channelLimits, rlWindow, rlLast>>' # <<userLimits, channelLimits, rlWindow, rlLast>>

\* the entries of every key of the map but key are what they were
OtherKeysKept(limitMap, limitMapNext, key) ==
  \A k \in DOMAIN limitMap \ {key} :
    k \in DOMAIN limitMapNext /\ limitMapNext[k] = limitMap[k]

\* the count the entry of key holds after one more allowed check at now
CountAfterAllowed(limitMap, key) ==
  IF key \notin DOMAIN limitMap \/ now > limitMap[key].resetTime
  THEN 1
  ELSE limitMap[key].count + 1

\* C38: checkRateLimits consults the user counter first and the channel
\* counter only if the user check allowed: a message denied by the user limit
\* leaves the channel map as it is, a message denied by the channel limit has
\* consumed one unit of the quota of its user, and a check changes the entry
\* of no key but its own.
C38_UserCheckFirst ==
  [][CheckRateLimitsStep =>
       LET ue == rlLast'[1] IN
       /\ ue.map = "user"
       /\ Len(rlLast') = (IF ue.ok THEN 2 ELSE 1)
       /\ OtherKeysKept(userLimits, userLimits', ue.key)
       /\ ~ue.ok => (channelLimits' = channelLimits /\ userLimits' = userLimits)
       /\ ue.ok =>
            /\ rlLast'[2].map = "channel"
            /\ OtherKeysKept(channelLimits, channelLimits', rlLast'[2].key)
            /\ userLimits'[ue.key].count = CountAfterAllowed(userLimits, ue.key)
            /\ ~rlLast'[2].ok => channelLimits' = channelLimits]_vars

\* a message was denied by the limit of its channel after it consumed a unit
\* of the quota of its user, while the other user holds an entry
C38_Witness ==
  /\ Len(rlLast) = 2
  /\ rlLast[1].ok /\ ~rlLast[2].ok
  /\ userLimits[rlLast[1].key].count = rlLast[1].before + 1
  /\ DOMAIN userLimits = OrderUsers

\* a message was denied by the limit of its user: the channel counter was not
\* consulted
C38_DeniedByUser ==
  /\ Len(rlLast) = 1
  /\ ~rlLast[1].ok
  /\ rlLast[1].max = UserMaxRequests

\* the map of the limiter an event of rlLast is about
LimitMapOf(mapName) == IF mapName = "user" THEN userLimits ELSE channelLimits

\* the window of the entry of key is over at now
WindowOver(limitMap, key) == key \in DOMAIN limitMap /\ now > limitMap[key].resetTime

\* every entry holds a count from 1 to the cap its key is checked with
CountsWithinCap ==
  /\ \A u \in DOMAIN userLimits :
       userLimits[u].count >= 1 /\ userLimits[u].count <= UserMaxRequests
  /\ \A c \in DOMAIN channelLimits :
       channelLimits[c].count >= 1 /\ channelLimits[c].count <= channelLimitOf(c)

\* C39: a denied checkLimit leaves count and resetTime of its key as they
\* were, every entry holds a count of at most the cap it is checked with, and
\* a check made after the resetTime of the entry is allowed and opens a new
\* window, however many checks were denied before it.
C39_BoundedLockout ==
  /\ []CountsWithinCap
  /\ [][CheckRateLimitsStep =>
          \A i \in 1..Len(rlLast') :
            LET e == rlLast'[i]
                before == LimitMapOf(e.map)
                after == IF e.map = "user" THEN userLimits' ELSE channelLimits'
            IN  /\ ~e.ok => (e.key \in DOMAIN before /\ after[e.key] = before[e.key])
                /\ WindowOver(before, e.key) =>
                     /\ e.ok
                     /\ after[e.key] = [count |-> 1, resetTime |-> now + WindowMs]]_vars

\* a check is denied at the last instant of the window of its key, whose
\* entry stands at the cap
C39_Witness ==
  \E i \in 1..Len(rlLast) :
    LET e == rlLast[i] IN
    /\ ~e.ok
    /\ LimitMapOf(e.map)[e.key].count = e.max
    /\ now = LimitMapOf(e.map)[e.key].resetTime

\* a check made after the first windows of the run were over was allowed and
\* opened a new window
C39_AllowedAfterReset ==
  \E i \in 1..Len(rlLast) :
    /\ rlLast[i].ok /\ rlLast[i].fresh
    /\ now > WindowMs
    /\ LimitMapOf(rlLast[i].map)[rlLast[i].key].count = 1

\* this step is the arrival of a message at the invocation q of handle
InboundStep(q) == handles[q].pc = "idle" /\ handles'[q].pc # "idle"

\* the message that arrived in this step is dropped: written by a bot, turned
\* away by shouldProcessMessage, or denied by one of the two rate checks
DroppedOnArrival(q) ==
  \/ handles'[q].msg.authorBot
  \/ ~gateLast'.decision.should
  \/ \E i \in 1..Len(rlLast') : ~rlLast'[i].ok

\* the invocation returned without a pipeline step: no context read or
\* written, no generateResponse call, no typing, reply or send
NoPipelineStep(q) ==
  /\ handles[q].pc = "done"
  /\ handles[q].outcome \in {"ignored", "rate limited"}
  /\ handles[q].ctx = 0 /\ handles[q].response = "" /\ ~handles[q].updated
  /\ handles[q].deliveries = 0 /\ handles[q].failed = {}
  /\ handles[q].retry = "none" /\ handles[q].errorReply = "none"
  /\ gen[q] = IdleRequest
  /\ \A i \in 1..Len(convLog) : convLog[i].q # q

\* C40: the arrival of a message that is written by a bot, turned away by the
\* gate or denied by the limiter ends its invocation of handle at once, with
\* the sessions, the cache and the generation service as they were and no
\* platform call made, and the invocation does nothing later; a message
\* written by a bot also leaves the rate counters and the activity lists as
\* they were.
C40_DroppedNoEffects ==
  [][\A q \in Requests :
       /\ (InboundStep(q) /\ DroppedOnArrival(q)) =>
            /\ NoPipelineStep(q)'
            /\ UNCHANGED <<convVars, cacheVars, genVars, convLog>>
            /\ handles'[q].msg.authorBot
                 => UNCHANGED <<userLimits, channelLimits, channelActivity>>
       /\ NoPipelineStep(q) => (NoPipelineStep(q)' /\ handles'[q] = handles[q])]_vars

\* one message was denied by the limiter and another answered and stored
C40_Witness ==
  \E p, q \in Requests :
    /\ NoPipelineStep(p) /\ handles[p].outcome = "rate limited"
    /\ handles[q].pc = "done" /\ handles[q].updated

\* a message of a bot was dropped
C40_BotDropped ==
  \E q \in Requests : NoPipelineStep(q) /\ handles[q].msg.authorBot

\* a message of a user was turned away by the gate
C40_GateDropped ==
  \E q \in Requests :
    /\ NoPipelineStep(q) /\ handles[q].outcome = "ignored"
    /\ ~handles[q].msg.authorBot
    /\ channelActivity # EmptyMap

====
